---- MODULE Spec2Model ----
(***************************************************************************)
(* Verification model of the popcornmachine gameflow core:                 *)
(*   - clock algebra and pixel mapping   (web/src/lib/timeline.ts)         *)
(*   - per-minute lineup reconstruction  (web/src/components/              *)
(*                                        GameflowTimeline.tsx)            *)
(*                                                                         *)
(* Conventions                                                             *)
(*   - A JavaScript string is a sequence of one-character strings, so that *)
(*     split / parseInt / Number are modelled by what they do.             *)
(*   - A JavaScript Set is a duplicate-free sequence in insertion order    *)
(*     (the iteration order of a JS Set).                                  *)
(*   - The number NaN is the sentinel NaN below; every arithmetic helper   *)
(*     propagates it and every comparison with it is false.                *)
(*   - Game minutes (startMin, endMin, point) are doubles, as in the code: *)
(*     the records [s, m, e] of the number library below.                  *)
(***************************************************************************)
EXTENDS Integers, Sequences, FiniteSets, TLC

VARIABLES
    teamPlayers,   \* buildLineupsByMinute argument: GameflowPlayer[]
    stintRanges,   \* the stint ranges buildLineupsByMinute computes before its loop
    maxMinute,     \* buildLineupsByMinute argument
    minute,        \* loop counter of buildLineupsByMinute
    carried,       \* the running `carried` Set
    lineups,       \* the Map minute -> Set built so far (sequence, index minute+1)
    fn,            \* name of the pure function under evaluation
    args,          \* its arguments
    ret,           \* its result
    pc,            \* "call" before the function is applied, "done" after
    fetches        \* useJsonData: the fetches whose promise chain has not settled

vars ==
    <<teamPlayers, stintRanges, maxMinute, minute, carried, lineups, fn, args, ret,
      pc, fetches>>

----------------------------------------------------------------------------
(* Bounds of the model *)

MaxMinute == 14

MaxOvertimeMinute == 61

MaxPeriods == 7

MaxWidth == 6

MaxSeconds == 6

----------------------------------------------------------------------------
(* JavaScript numbers and strings *)

NaN == -1000000

IsNaN(x) == x = NaN

Add(a, b) == IF IsNaN(a) \/ IsNaN(b) THEN NaN ELSE a + b

Sub(a, b) == IF IsNaN(a) \/ IsNaN(b) THEN NaN ELSE a - b

Mul(a, b) == IF IsNaN(a) \/ IsNaN(b) THEN NaN ELSE a * b

Le(a, b) == ~IsNaN(a) /\ ~IsNaN(b) /\ a <= b

Lt(a, b) == ~IsNaN(a) /\ ~IsNaN(b) /\ a < b

Gt(a, b) == ~IsNaN(a) /\ ~IsNaN(b) /\ a > b

Digits == {"0", "1", "2", "3", "4", "5", "6", "7", "8", "9"}

WhiteSpace == {" "}

DigitValue(c) ==
    CASE c = "0" -> 0 [] c = "1" -> 1 [] c = "2" -> 2 [] c = "3" -> 3
      [] c = "4" -> 4 [] c = "5" -> 5 [] c = "6" -> 6 [] c = "7" -> 7
      [] c = "8" -> 8 [] c = "9" -> 9

Undefined == <<"u", "n", "d", "e", "f", "i", "n", "e", "d">>

RECURSIVE IndexOf(_, _, _)
IndexOf(str, c, i) ==
    IF i > Len(str) THEN 0
    ELSE IF str[i] = c THEN i
    ELSE IndexOf(str, c, i + 1)

(* String.prototype.split(sep) for a one-character separator *)
RECURSIVE split(_, _)
split(str, sep) ==
    LET i == IndexOf(str, sep, 1)
    IN  IF i = 0 THEN <<str>>
        ELSE <<SubSeq(str, 1, i - 1)>> \o split(SubSeq(str, i + 1, Len(str)), sep)

(* Array element read: undefined past the end *)
At(arr, i) == IF i <= Len(arr) THEN arr[i] ELSE Undefined

RECURSIVE TrimStart(_)
TrimStart(str) ==
    IF str # <<>> /\ Head(str) \in WhiteSpace THEN TrimStart(Tail(str)) ELSE str

RECURSIVE TrimEnd(_)
TrimEnd(str) ==
    IF str # <<>> /\ str[Len(str)] \in WhiteSpace
    THEN TrimEnd(SubSeq(str, 1, Len(str) - 1))
    ELSE str

RECURSIVE LeadingDigits(_)
LeadingDigits(str) ==
    IF str # <<>> /\ Head(str) \in Digits
    THEN <<Head(str)>> \o LeadingDigits(Tail(str))
    ELSE <<>>

RECURSIVE RadixValue(_, _)
RadixValue(digs, radix) ==
    IF digs = <<>> THEN 0
    ELSE RadixValue(SubSeq(digs, 1, Len(digs) - 1), radix) * radix
         + DigitValue(digs[Len(digs)])

(* parseInt(str, 10): leading white space, an optional sign, then the      *)
(* longest prefix of decimal digits; NaN when there is no digit.           *)
parseInt(str) ==
    LET t == TrimStart(str)
        signed == t # <<>> /\ Head(t) \in {"+", "-"}
        body == IF signed THEN Tail(t) ELSE t
        digs == LeadingDigits(body)
    IN  IF digs = <<>> THEN NaN
        ELSE IF signed /\ Head(t) = "-" THEN 0 - RadixValue(digs, 10)
        ELSE RadixValue(digs, 10)

(* Number(str) over the alphabet digits, sign, colon, blank, "x":          *)
(* the trimmed string must be empty (0), a hexadecimal literal 0x<digits>, *)
(* or an optionally signed run of decimal digits; anything else is NaN.    *)
Number(str) ==
    LET t == TrimEnd(TrimStart(str))
        signed == t # <<>> /\ Head(t) \in {"+", "-"}
        body == IF signed THEN Tail(t) ELSE t
    IN  IF t = <<>> THEN 0
        ELSE IF Len(t) >= 3 /\ t[1] = "0" /\ t[2] \in {"x", "X"}
                /\ LeadingDigits(SubSeq(t, 3, Len(t))) = SubSeq(t, 3, Len(t))
             THEN RadixValue(SubSeq(t, 3, Len(t)), 16)
        ELSE IF body # <<>> /\ LeadingDigits(body) = body
             THEN IF signed /\ Head(t) = "-" THEN 0 - RadixValue(body, 10)
                  ELSE RadixValue(body, 10)
        ELSE NaN

----------------------------------------------------------------------------
(* web/src/lib/timeline.ts *)

QUARTER_DURATION_SECONDS == 720

OT_DURATION_SECONDS == 300

TOTAL_REGULATION_SECONDS == 2880

(* clockToSeconds with the overtime start counted from period 4 *)
clockToSecondsOTBase(period, clock) ==
    LET parts == split(clock, ":")
        minutes == parseInt(At(parts, 1))
        seconds == parseInt(At(parts, 2))
        isOT == period > 4
        periodDuration == IF isOT THEN OT_DURATION_SECONDS
                          ELSE QUARTER_DURATION_SECONDS
        elapsedInPeriod == Sub(periodDuration, Add(Mul(minutes, 60), seconds))
        startSeconds == IF isOT
                        THEN TOTAL_REGULATION_SECONDS
                             + (period - 4) * OT_DURATION_SECONDS
                        ELSE (period - 1) * QUARTER_DURATION_SECONDS
    IN  Add(startSeconds, elapsedInPeriod)

(* clockToSeconds taking the countdown clock as the time elapsed *)
clockToSecondsNoCountdown(period, clock) ==
    LET parts == split(clock, ":")
        minutes == parseInt(At(parts, 1))
        seconds == parseInt(At(parts, 2))
        isOT == period > 4
        elapsedInPeriod == Add(Mul(minutes, 60), seconds)
        startSeconds == IF isOT
                        THEN TOTAL_REGULATION_SECONDS
                             + (period - 5) * OT_DURATION_SECONDS
                        ELSE (period - 1) * QUARTER_DURATION_SECONDS
    IN  Add(startSeconds, elapsedInPeriod)

clockToSeconds(period, clock) ==
    LET parts == split(clock, ":")
        minutes == parseInt(At(parts, 1))
        seconds == parseInt(At(parts, 2))
        isOT == period > 4
        periodDuration == IF isOT THEN OT_DURATION_SECONDS
                          ELSE QUARTER_DURATION_SECONDS
        elapsedInPeriod == Sub(periodDuration, Add(Mul(minutes, 60), seconds))
        startSeconds == IF isOT
                        THEN TOTAL_REGULATION_SECONDS
                             + (period - 5) * OT_DURATION_SECONDS
                        ELSE (period - 1) * QUARTER_DURATION_SECONDS
    IN  Add(startSeconds, elapsedInPeriod)

(* Natural numbers of any size: little-endian sequences of limbs in base  *)
(* 2^15 with no leading zero limb; <<>> is 0.                              *)
Limb == 32768

(* 2^k for 0 <= k <= 15 *)
Pow2(k) ==
    <<1, 2, 4, 8, 16, 32, 64, 128, 256, 512, 1024, 2048, 4096, 8192, 16384,
      32768>>[k + 1]

BNLimb(a, i) == IF i >= 1 /\ i <= Len(a) THEN a[i] ELSE 0

BNNorm(a) ==
    LET nz == {i \in DOMAIN a : a[i] # 0}
    IN  IF nz = {} THEN <<>>
        ELSE SubSeq(a, 1, CHOOSE i \in nz : \A j \in nz : j <= i)

(* 0 <= i < 2^31 *)
BNOfInt(i) == BNNorm(<<i % Limb, (i \div Limb) % Limb, i \div (Limb * Limb)>>)

RECURSIVE BNAddCarry(_, _, _)
BNAddCarry(a, b, c) ==
    IF a = <<>> /\ b = <<>> THEN (IF c = 0 THEN <<>> ELSE <<c>>)
    ELSE LET x == (IF a = <<>> THEN 0 ELSE Head(a))
                  + (IF b = <<>> THEN 0 ELSE Head(b)) + c
         IN  <<x % Limb>> \o BNAddCarry(IF a = <<>> THEN a ELSE Tail(a),
                                        IF b = <<>> THEN b ELSE Tail(b),
                                        x \div Limb)

BNAdd(a, b) == BNAddCarry(a, b, 0)

(* a - b for a >= b *)
RECURSIVE BNSubBorrow(_, _, _)
BNSubBorrow(a, b, c) ==
    IF a = <<>> THEN <<>>
    ELSE LET x == Head(a) - (IF b = <<>> THEN 0 ELSE Head(b)) - c
         IN  <<IF x < 0 THEN x + Limb ELSE x>>
             \o BNSubBorrow(Tail(a), IF b = <<>> THEN b ELSE Tail(b),
                            IF x < 0 THEN 1 ELSE 0)

BNSub(a, b) == BNNorm(BNSubBorrow(a, b, 0))

(* -1, 0, 1 as a < b, a = b, a > b *)
BNCmp(a, b) ==
    IF Len(a) # Len(b) THEN (IF Len(a) < Len(b) THEN 0 - 1 ELSE 1)
    ELSE LET diff == {i \in 1..Len(a) : a[i] # b[i]}
             top == CHOOSE i \in diff : \A j \in diff : j <= i
         IN  IF diff = {} THEN 0
             ELSE IF a[top] < b[top] THEN 0 - 1 ELSE 1

(* a * k for 0 <= k < 2^15 *)
RECURSIVE BNMulSmallCarry(_, _, _)
BNMulSmallCarry(a, k, c) ==
    IF a = <<>> THEN (IF c = 0 THEN <<>> ELSE <<c>>)
    ELSE LET x == Head(a) * k + c
         IN  <<x % Limb>> \o BNMulSmallCarry(Tail(a), k, x \div Limb)

BNMulSmall(a, k) == IF k = 0 THEN <<>> ELSE BNMulSmallCarry(a, k, 0)

BNShiftLimbs(a, k) == IF a = <<>> THEN a ELSE [i \in 1..k |-> 0] \o a

RECURSIVE BNMul(_, _)
BNMul(a, b) ==
    IF b = <<>> \/ a = <<>> THEN <<>>
    ELSE BNAdd(BNMulSmall(a, Head(b)), BNShiftLimbs(BNMul(a, Tail(b)), 1))

(* a * 2^n *)
BNShl(a, n) == BNShiftLimbs(BNMulSmall(a, Pow2(n % 15)), n \div 15)

(* floor(a / 2^n) *)
BNShr(a, n) ==
    LET k == n \div 15
        p == Pow2(n % 15)
    IN  IF k >= Len(a) THEN <<>>
        ELSE BNNorm([i \in 1..(Len(a) - k) |->
                        (a[i + k] \div p) + (BNLimb(a, i + k + 1) % p) * (Limb \div p)])

(* The number of binary digits of a limb *)
BitLenInt(i) ==
    Cardinality({p \in {1, 2, 4, 8, 16, 32, 64, 128, 256, 512, 1024, 2048, 4096,
                        8192, 16384} : p <= i})

BNBitLen(a) == IF a = <<>> THEN 0 ELSE 15 * (Len(a) - 1) + BitLenInt(a[Len(a)])

BNIsOdd(a) == a # <<>> /\ a[1] % 2 = 1

(* Long division of a by b from limb i of a down, with the quotient       *)
(* digits q found so far and the remainder r, for b whose top limb is at  *)
(* least Limb / 2: a quotient digit is at most two below its estimate     *)
(* from the top limbs.                                                    *)
RECURSIVE BNDivModLimbs(_, _, _, _, _)
BNDivModLimbs(a, b, i, q, r) ==
    IF i = 0 THEN [q |-> BNNorm(q), r |-> r]
    ELSE LET r1 == BNNorm(<<a[i]>> \o r)
             n == Len(b)
             top == BNLimb(r1, n + 1) * Limb + BNLimb(r1, n)
             est == IF top \div b[n] > Limb - 1 THEN Limb - 1 ELSE top \div b[n]
             prod == BNMulSmall(b, est)
             prod1 == BNSub(prod, b)
         IN  IF BNCmp(r1, b) < 0 THEN BNDivModLimbs(a, b, i - 1, <<0>> \o q, r1)
             ELSE IF BNCmp(prod, r1) <= 0
             THEN BNDivModLimbs(a, b, i - 1, <<est>> \o q, BNSub(r1, prod))
             ELSE IF BNCmp(prod1, r1) <= 0
             THEN BNDivModLimbs(a, b, i - 1, <<est - 1>> \o q, BNSub(r1, prod1))
             ELSE BNDivModLimbs(a, b, i - 1, <<est - 2>> \o q,
                                BNSub(r1, BNSub(prod1, b)))

(* Quotient and remainder of a by b > 0 *)
BNDivMod(a, b) ==
    LET shift == 15 - BitLenInt(b[Len(b)])
        num == BNShl(a, shift)
        qr == BNDivModLimbs(num, BNShl(b, shift), Len(num), <<>>, <<>>)
    IN  [q |-> qr.q, r |-> BNShr(qr.r, shift)]

(* JavaScript numbers that need not be integral (pixel coordinates,       *)
(* minutes) are IEEE 754 doubles [s, m, e]: sign s (1 or -1), mantissa m  *)
(* with 2^52 <= m < 2^53 and value s * m * 2^e.  Zero has m = 0 and       *)
(* e = 0, an infinity m = 0 and e = 1, NaN s = 0.  Every operation rounds *)
(* the exact result to nearest, ties to even.  (Exponent overflow and     *)
(* subnormal results are out of the magnitudes that occur.)               *)
F64NaN == [s |-> 0, m |-> <<>>, e |-> 0]

F64Zero(sign) == [s |-> sign, m |-> <<>>, e |-> 0]

F64Inf(sign) == [s |-> sign, m |-> <<>>, e |-> 1]

F64IsNaN(a) == a.s = 0

F64IsZero(a) == a.s # 0 /\ a.m = <<>> /\ a.e = 0

F64IsInf(a) == a.s # 0 /\ a.m = <<>> /\ a.e = 1

(* The double nearest to sign * mant * 2^exp (plus a little when sticky) *)
F64Round(sign, mant, exp, sticky) ==
    IF mant = <<>> THEN F64Zero(sign)
    ELSE LET len == BNBitLen(mant)
         IN  IF len <= 53
             THEN [s |-> sign, m |-> BNShl(mant, 53 - len), e |-> exp - (53 - len)]
             ELSE LET shift == len - 53
                      q == BNShr(mant, shift)
                      r == BNSub(mant, BNShl(q, shift))
                      half == BNCmp(r, BNShl(<<1>>, shift - 1))
                      up == half > 0 \/ (half = 0 /\ (sticky \/ BNIsOdd(q)))
                      q1 == IF up THEN BNAdd(q, <<1>>) ELSE q
                  IN  IF BNBitLen(q1) > 53
                      THEN [s |-> sign, m |-> BNShr(q1, 1), e |-> exp + shift + 1]
                      ELSE [s |-> sign, m |-> q1, e |-> exp + shift]

(* An integer as a double; the integer standing for NaN gives NaN *)
F64OfInt(i) ==
    IF IsNaN(i) THEN F64NaN
    ELSE F64Round(IF i < 0 THEN 0 - 1 ELSE 1, BNOfInt(IF i < 0 THEN 0 - i ELSE i),
                  0, FALSE)

F64Neg(a) == [a EXCEPT !.s = 0 - a.s]

F64Abs(a) == [a EXCEPT !.s = IF a.s = 0 THEN 0 ELSE 1]

(* -1, 0, 1 as |a| < |b|, |a| = |b|, |a| > |b|, for finite a and b *)
F64CmpAbs(a, b) ==
    IF a.m = <<>> \/ b.m = <<>>
    THEN (IF a.m = b.m THEN 0 ELSE IF a.m = <<>> THEN 0 - 1 ELSE 1)
    ELSE IF a.e # b.e THEN (IF a.e < b.e THEN 0 - 1 ELSE 1)
    ELSE BNCmp(a.m, b.m)

(* a + b *)
F64Add(a, b) ==
    IF F64IsNaN(a) \/ F64IsNaN(b) THEN F64NaN
    ELSE IF F64IsInf(a) \/ F64IsInf(b)
         THEN (IF F64IsInf(a) /\ F64IsInf(b) /\ a.s # b.s THEN F64NaN
               ELSE IF F64IsInf(a) THEN a ELSE b)
    ELSE IF F64IsZero(a) /\ F64IsZero(b)
         THEN F64Zero(IF a.s < 0 /\ b.s < 0 THEN 0 - 1 ELSE 1)
    ELSE IF F64IsZero(a) THEN b
    ELSE IF F64IsZero(b) THEN a
    ELSE LET big == IF F64CmpAbs(a, b) >= 0 THEN a ELSE b
             small == IF F64CmpAbs(a, b) >= 0 THEN b ELSE a
             far == big.e - small.e > 64
             exp == IF far THEN big.e - 64 ELSE small.e
             mbig == BNShl(big.m, big.e - exp)
             msmall == IF far THEN <<1>> ELSE small.m
         IN  IF big.s = small.s THEN F64Round(big.s, BNAdd(mbig, msmall), exp, FALSE)
             ELSE IF BNCmp(mbig, msmall) = 0 THEN F64Zero(1)
             ELSE F64Round(big.s, BNSub(mbig, msmall), exp, FALSE)

F64Sub(a, b) == F64Add(a, F64Neg(b))

(* a * b *)
F64Mul(a, b) ==
    IF F64IsNaN(a) \/ F64IsNaN(b) THEN F64NaN
    ELSE IF F64IsInf(a) \/ F64IsInf(b)
         THEN (IF F64IsZero(a) \/ F64IsZero(b) THEN F64NaN ELSE F64Inf(a.s * b.s))
    ELSE F64Round(a.s * b.s, BNMul(a.m, b.m), a.e + b.e, FALSE)

(* a / b *)
F64Div(a, b) ==
    IF F64IsNaN(a) \/ F64IsNaN(b) THEN F64NaN
    ELSE IF F64IsInf(a) THEN (IF F64IsInf(b) THEN F64NaN ELSE F64Inf(a.s * b.s))
    ELSE IF F64IsInf(b) THEN F64Zero(a.s * b.s)
    ELSE IF F64IsZero(b) THEN (IF F64IsZero(a) THEN F64NaN ELSE F64Inf(a.s * b.s))
    ELSE IF F64IsZero(a) THEN F64Zero(a.s * b.s)
    ELSE LET qr == BNDivMod(BNShl(a.m, 55), b.m)
         IN  F64Round(a.s * b.s, qr.q, a.e - b.e - 55, qr.r # <<>>)

(* The double nearest to the fraction n / d, as a literal such as 10.1 *)
F64(n, d) == F64Div(F64OfInt(n), F64OfInt(d))

(* a < b *)
F64Lt(a, b) ==
    /\ ~F64IsNaN(a)
    /\ ~F64IsNaN(b)
    /\ ~(F64IsZero(a) /\ F64IsZero(b))
    /\ LET mag(x) == IF F64IsInf(x) THEN [s |-> x.s, m |-> <<1>>, e |-> 100000] ELSE x
           x == mag(a)
           y == mag(b)
       IN  IF x.s # y.s THEN x.s < y.s
           ELSE IF x.s > 0 THEN F64CmpAbs(x, y) < 0
           ELSE F64CmpAbs(x, y) > 0

(* a <= b *)
F64Le(a, b) ==
    /\ ~F64IsNaN(a)
    /\ ~F64IsNaN(b)
    /\ ~F64Lt(b, a)

(* Math.max(a, b) *)
F64Max(a, b) ==
    IF F64IsNaN(a) \/ F64IsNaN(b) THEN F64NaN
    ELSE IF F64Lt(a, b) THEN b
    ELSE IF F64Lt(b, a) THEN a
    ELSE IF a.s > 0 THEN a ELSE b

(* secondsToPixelX with width and duration exchanged *)
secondsToPixelXSwapped(seconds, totalWidth, totalSeconds) ==
    F64Mul(F64Div(seconds, totalWidth), totalSeconds)

(* (seconds / totalSeconds) * totalWidth on doubles, totalSeconds # 0       *)
secondsToPixelX(seconds, totalWidth, totalSeconds) ==
    F64Mul(F64Div(seconds, totalSeconds), totalWidth)

RECURSIVE QuarterBoundariesFrom(_, _)
QuarterBoundariesFrom(period, numPeriods) ==
    IF period > numPeriods THEN <<>>
    ELSE LET isOT == period > 4
             duration == IF isOT THEN OT_DURATION_SECONDS
                         ELSE QUARTER_DURATION_SECONDS
             startSeconds == IF isOT
                             THEN TOTAL_REGULATION_SECONDS
                                  + (period - 5) * OT_DURATION_SECONDS
                             ELSE (period - 1) * QUARTER_DURATION_SECONDS
         IN  <<[period |-> period,
                startSeconds |-> startSeconds,
                endSeconds |-> startSeconds + duration]>>
             \o QuarterBoundariesFrom(period + 1, numPeriods)

(* getQuarterBoundaries giving every period the quarter's duration *)
RECURSIVE QuarterBoundariesAllQuarters(_, _)
QuarterBoundariesAllQuarters(period, numPeriods) ==
    IF period > numPeriods THEN <<>>
    ELSE LET isOT == period > 4
             startSeconds == IF isOT
                             THEN TOTAL_REGULATION_SECONDS
                                  + (period - 5) * OT_DURATION_SECONDS
                             ELSE (period - 1) * QUARTER_DURATION_SECONDS
         IN  <<[period |-> period,
                startSeconds |-> startSeconds,
                endSeconds |-> startSeconds + QUARTER_DURATION_SECONDS]>>
             \o QuarterBoundariesAllQuarters(period + 1, numPeriods)

getQuarterBoundariesAllQuarters(numPeriods) ==
    QuarterBoundariesAllQuarters(1, numPeriods)

getQuarterBoundaries(numPeriods) == QuarterBoundariesFrom(1, numPeriods)

(* getStintPixelRange taking the width from the out time alone *)
getStintPixelRangeWidthFromOut(inTime, outTime, period, totalWidth, totalSeconds) ==
    LET inSeconds == clockToSeconds(period, inTime)
        outSeconds == clockToSeconds(period, outTime)
    IN  [x |-> IF IsNaN(inSeconds) THEN F64OfInt(NaN)
               ELSE secondsToPixelX(F64OfInt(inSeconds), totalWidth, totalSeconds),
         width |-> IF IsNaN(outSeconds) THEN F64OfInt(NaN)
                   ELSE secondsToPixelX(F64OfInt(outSeconds), totalWidth, totalSeconds)]

(* getStintPixelRange placing the stint at its out time *)
getStintPixelRangeXFromOut(inTime, outTime, period, totalWidth, totalSeconds) ==
    LET inSeconds == clockToSeconds(period, inTime)
        outSeconds == clockToSeconds(period, outTime)
    IN  [x |-> IF IsNaN(outSeconds) THEN F64OfInt(NaN)
               ELSE secondsToPixelX(F64OfInt(outSeconds), totalWidth, totalSeconds),
         width |-> IF IsNaN(Sub(outSeconds, inSeconds)) THEN F64OfInt(NaN)
                   ELSE secondsToPixelX(F64OfInt(Sub(outSeconds, inSeconds)),
                                        totalWidth, totalSeconds)]

(* { x, width } of a stint on the whole-game axis; a NaN clock value gives *)
(* a NaN coordinate                                                        *)
getStintPixelRange(inTime, outTime, period, totalWidth, totalSeconds) ==
    LET inSeconds == clockToSeconds(period, inTime)
        outSeconds == clockToSeconds(period, outTime)
    IN  [x |-> IF IsNaN(inSeconds) THEN F64OfInt(NaN)
               ELSE secondsToPixelX(F64OfInt(inSeconds), totalWidth, totalSeconds),
         width |-> IF IsNaN(Sub(outSeconds, inSeconds)) THEN F64OfInt(NaN)
                   ELSE secondsToPixelX(F64OfInt(Sub(outSeconds, inSeconds)),
                                        totalWidth, totalSeconds)]

----------------------------------------------------------------------------
(* web/src/components/GameflowTimeline.tsx *)

QUARTER_SECONDS == 720

OT_SECONDS == 300

(* clockToElapsed taking the countdown clock as the time elapsed *)
clockToElapsedNoCountdown(clock, periodDuration) ==
    LET parts == split(clock, ":")
        m == Number(At(parts, 1))
        s == Number(At(parts, 2))
    IN  Add(Mul(m, 60), s)

(* "MM:SS" countdown clock to elapsed seconds within the period *)
clockToElapsed(clock, periodDuration) ==
    LET parts == split(clock, ":")
        m == Number(At(parts, 1))
        s == Number(At(parts, 2))
    IN  Sub(periodDuration, Add(Mul(m, 60), s))

QUARTER_PX == 216

(* fraction * QUARTER_PX for fraction = seconds / periodDuration; NaN *)
(* seconds give a NaN width                                          *)
FractionPx(seconds, periodDuration) ==
    IF IsNaN(seconds) THEN F64OfInt(NaN)
    ELSE F64Mul(F64Div(F64OfInt(seconds), F64OfInt(periodDuration)),
                F64OfInt(QUARTER_PX))

(* stints.map((s, idx) => ({ stint: s, idx })), idx counted from 0 *)
WithIndex(stints) == [i \in 1..Len(stints) |-> [stint |-> stints[i], idx |-> i - 1]]

(* .filter((s) => s.stint.period === period) *)
RECURSIVE FilterPeriod(_, _)
FilterPeriod(entries, period) ==
    IF entries = <<>> THEN <<>>
    ELSE (IF Head(entries).stint.period = period THEN <<Head(entries)>> ELSE <<>>)
         \o FilterPeriod(Tail(entries), period)

(* Array.prototype.sort of a short array.  The parts the engines build   *)
(* it from: the leading run is found (and reversed when strictly         *)
(* descending), and an element is placed by binary insertion.            *)
(* The array is a sequence of indices 1..n and less[i][j] says whether   *)
(* comparefn(element i, element j) < 0; a NaN result counts as 0.        *)
RECURSIVE RunEnd(_, _, _, _)
RunEnd(work, less, idx, isDescending) ==
    IF idx > Len(work) THEN idx - 1
    ELSE IF less[work[idx]][work[idx - 1]] = isDescending
         THEN RunEnd(work, less, idx + 1, isDescending)
         ELSE idx - 1

CountAndMakeRun(work, less) ==
    LET isDescending == less[work[2]][work[1]]
        runLength == RunEnd(work, less, 3, isDescending)
    IN  [runLength |-> runLength,
         work |-> IF isDescending
                  THEN [i \in 1..Len(work) |->
                            IF i <= runLength THEN work[runLength + 1 - i]
                            ELSE work[i]]
                  ELSE work]

RECURSIVE InsertionPoint(_, _, _, _, _)
InsertionPoint(work, less, pivot, left, right) ==
    IF left >= right THEN left
    ELSE LET mid == left + ((right - left) \div 2)
         IN  IF less[pivot][work[mid]]
             THEN InsertionPoint(work, less, pivot, left, mid)
             ELSE InsertionPoint(work, less, pivot, mid + 1, right)

RECURSIVE BinaryInsertionSort(_, _, _)
BinaryInsertionSort(work, less, start) ==
    IF start > Len(work) THEN work
    ELSE LET pivot == work[start]
             left == InsertionPoint(work, less, pivot, 1, start)
         IN  BinaryInsertionSort(
                 [i \in 1..Len(work) |->
                     IF i < left \/ i > start THEN work[i]
                     ELSE IF i = left THEN pivot
                     ELSE work[i - 1]],
                 less, start + 1)

(* The engines the program runs on differ on arrays of 3 to 7 elements:   *)
(* one finds the leading run first (node 22), the other places every      *)
(* element from the second on by binary insertion (Chrome 147).  They     *)
(* agree when the comparator is a consistent order; with a NaN result     *)
(* the order is the engine's own.                                         *)
SortEngines == {"leadingRun", "insertionOnly"}

(* The order of the indices 1..n, n <= 7, after sorting by less on engine *)
ArraySort(n, less, engine) ==
    IF n < 2 THEN [i \in 1..n |-> i]
    ELSE IF engine = "insertionOnly"
    THEN BinaryInsertionSort([i \in 1..n |-> i], less, 2)
    ELSE LET run == CountAndMakeRun([i \in 1..n |-> i], less)
         IN  BinaryInsertionSort(run.work, less, run.runLength + 1)

(* .sort((a, b) => clockToElapsed(a.inTime) - clockToElapsed(b.inTime)) *)
SortByIn(entries, periodDuration, engine) ==
    LET elapsed == [i \in 1..Len(entries) |->
                        clockToElapsed(entries[i].stint.inTime, periodDuration)]
        less == [i \in 1..Len(entries) |-> [j \in 1..Len(entries) |->
                        Lt(Sub(elapsed[i], elapsed[j]), 0)]]
        order == ArraySort(Len(entries), less, engine)
    IN  [k \in 1..Len(entries) |-> entries[order[k]]]

(* segments.push({ type: "in", widthPx: Math.max(stintFraction *     *)
(* QUARTER_PX, 1), stint, stintIndex: idx })                         *)
InSegment(entry, periodDuration) ==
    LET inElapsed == clockToElapsed(entry.stint.inTime, periodDuration)
        outElapsed == clockToElapsed(entry.stint.outTime, periodDuration)
        length == Sub(outElapsed, inElapsed)
        px == FractionPx(IF Lt(length, 0) THEN 0 ELSE length, periodDuration)
    IN  [type |-> "in",
         widthPx |-> IF IsNaN(length) THEN F64OfInt(NaN) ELSE F64Max(px, F64OfInt(1)),
         stint |-> entry.stint,
         stintIndex |-> entry.idx]

OutSegment(seconds, periodDuration) ==
    [type |-> "out", widthPx |-> FractionPx(seconds, periodDuration)]

(* The for loop over periodStints and the closing gap *)
RECURSIVE SegmentsFrom(_, _, _)
SegmentsFrom(periodStints, cursor, periodDuration) ==
    IF periodStints = <<>>
    THEN IF Lt(cursor, periodDuration)
         THEN <<OutSegment(Sub(periodDuration, cursor), periodDuration)>>
         ELSE <<>>
    ELSE LET entry == Head(periodStints)
             inElapsed == clockToElapsed(entry.stint.inTime, periodDuration)
             outElapsed == clockToElapsed(entry.stint.outTime, periodDuration)
         IN  (IF Gt(inElapsed, cursor)
              THEN <<OutSegment(Sub(inElapsed, cursor), periodDuration)>>
              ELSE <<>>)
             \o <<InSegment(entry, periodDuration)>>
             \o SegmentsFrom(Tail(periodStints), outElapsed, periodDuration)

buildQuarterSegments(stints, period, engine) ==
    LET periodDuration == IF period > 4 THEN OT_SECONDS ELSE QUARTER_SECONDS
        periodStints == SortByIn(FilterPeriod(WithIndex(stints), period),
                                 periodDuration, engine)
    IN  SegmentsFrom(periodStints, 0, periodDuration)

(* Width of the header cell of period p in the quarter headers row *)
quarterHeaderWidth(p) ==
    IF p > 4
    THEN F64Mul(F64Div(F64OfInt(OT_SECONDS), F64OfInt(QUARTER_SECONDS)),
                F64OfInt(QUARTER_PX))
    ELSE F64OfInt(QUARTER_PX)

(* JavaScript Set as a duplicate-free sequence in insertion order *)
SetHas(set, x) == \E i \in 1..Len(set) : set[i] = x

SetAdd(set, x) == IF SetHas(set, x) THEN set ELSE Append(set, x)

SetDelete(set, x) == SelectSeq(set, LAMBDA y : y # x)

RECURSIVE SetDeleteAll(_, _)
SetDeleteAll(set, xs) ==
    IF xs = <<>> THEN set ELSE SetDeleteAll(SetDelete(set, Head(xs)), Tail(xs))

RECURSIVE SetAddAll(_, _)
SetAddAll(set, xs) ==
    IF xs = <<>> THEN set ELSE SetAddAll(SetAdd(set, Head(xs)), Tail(xs))

Elements(set) == {set[i] : i \in 1..Len(set)}

RECURSIVE Flatten(_)
Flatten(seqs) == IF seqs = <<>> THEN <<>> ELSE Head(seqs) \o Flatten(Tail(seqs))

(* baseMins + clockToElapsed(...) / 60: the game minute of a stint boundary *)
gameMinuteOf(baseMins, elapsedSeconds) ==
    F64Add(F64OfInt(baseMins), F64Div(F64OfInt(elapsedSeconds), F64OfInt(60)))

(* stintRange with the base minute of a regulation period taken as        *)
(* period * 12 (the "- 1" forgotten)                                       *)
stintRangeBaseOffByOne(playerId, stint) ==
    LET periodDuration == IF stint.period > 4 THEN OT_SECONDS ELSE QUARTER_SECONDS
        baseMins == IF stint.period <= 4 THEN stint.period * 12
                    ELSE 48 + (stint.period - 5) * 5
    IN  <<gameMinuteOf(baseMins, clockToElapsed(stint.inTime, periodDuration)),
          gameMinuteOf(baseMins, clockToElapsed(stint.outTime, periodDuration)),
          playerId>>

(* One entry [startMin, endMin, playerId] of stintRanges: the two game     *)
(* minutes are doubles, baseMins + clockToElapsed(...) / 60.               *)
stintRange(playerId, stint) ==
    LET periodDuration == IF stint.period > 4 THEN OT_SECONDS ELSE QUARTER_SECONDS
        baseMins == IF stint.period <= 4 THEN (stint.period - 1) * 12
                    ELSE 48 + (stint.period - 5) * 5
    IN  <<gameMinuteOf(baseMins, clockToElapsed(stint.inTime, periodDuration)),
          gameMinuteOf(baseMins, clockToElapsed(stint.outTime, periodDuration)),
          playerId>>

(* The loop that fills stintRanges, over every stint of every player *)
stintRangesOf(players) ==
    Flatten([i \in 1..Len(players) |->
                [j \in 1..Len(players[i].stints) |->
                    stintRange(players[i].playerId, players[i].stints[j])]])

(* onCourtAt testing only the end of the stint (s <= point dropped) *)
RECURSIVE onCourtAtNoStart(_, _)
onCourtAtNoStart(ranges, point) ==
    IF ranges = <<>> THEN <<>>
    ELSE LET r == ranges[Len(ranges)]
             before == onCourtAtNoStart(SubSeq(ranges, 1, Len(ranges) - 1), point)
         IN  IF F64Lt(point, r[2]) THEN SetAdd(before, r[3]) ELSE before

(* Who has a stint covering this exact time point? *)
RECURSIVE onCourtAt(_, _)
onCourtAt(ranges, point) ==
    IF ranges = <<>> THEN <<>>
    ELSE LET r == ranges[Len(ranges)]
             before == onCourtAt(SubSeq(ranges, 1, Len(ranges) - 1), point)
         IN  IF F64Le(r[1], point) /\ F64Lt(point, r[2])
             THEN SetAdd(before, r[3])
             ELSE before

periodOfMinute(m) == (m \div 12) + 1

minuteInPeriod(m) == m % 12

(* minute + 0.5, the literal 0.5 being 1 with its binary exponent lowered *)
midpoint(m) == F64Add(F64OfInt(m), [F64OfInt(1) EXCEPT !.e = @ - 1])

(* Period start, period > 1, stintLineup.size < 5: add carried players in  *)
(* iteration order until the combined set has 5 members.                   *)
RECURSIVE combineCarried(_, _)
combineCarried(combined, rest) ==
    IF rest = <<>> \/ Len(combined) >= 5 THEN combined
    ELSE combineCarried(SetAdd(combined, Head(rest)), Tail(rest))

(* periodStartLineup trusting the stint data at every period start: no   *)
(* carry-over from the previous period                                   *)
periodStartLineupNoCarry(prevCarried, stintLineup, period) == stintLineup

periodStartLineup(prevCarried, stintLineup, period) ==
    IF period = 1 THEN stintLineup
    ELSE IF Len(stintLineup) < 5 THEN combineCarried(stintLineup, prevCarried)
    ELSE stintLineup

(* Mid-period: the carried set after the sub-out removal *)
subOutCarried(prevCarried, stintLineup) ==
    LET newPlayers == SelectSeq(stintLineup, LAMBDA pid : ~SetHas(prevCarried, pid))
        gone == SelectSeq(prevCarried, LAMBDA pid : ~SetHas(stintLineup, pid))
        toRemove == SubSeq(gone, 1, IF Len(newPlayers) < Len(gone)
                                    THEN Len(newPlayers) ELSE Len(gone))
    IN  IF Len(newPlayers) > 0 THEN SetDeleteAll(prevCarried, toRemove)
        ELSE prevCarried

(* capLineup keeping the first 5 members of merged, whoever they are *)
capLineupSlice(merged, stintLineup) ==
    IF Len(merged) > 5 THEN SubSeq(merged, 1, 5) ELSE merged

(* Mid-period: cap at 5 by trimming carried-only players *)
capLineup(merged, stintLineup) ==
    IF Len(merged) > 5
    THEN LET carriedOnly == SelectSeq(merged, LAMBDA pid : ~SetHas(stintLineup, pid))
             excess == Len(merged) - 5
             trimmed == SubSeq(carriedOnly, 1, IF excess < Len(carriedOnly)
                                               THEN excess ELSE Len(carriedOnly))
         IN  SetDeleteAll(merged, trimmed)
    ELSE merged

(* midPeriodLineup merging the stint lineup into carried and keeping the   *)
(* first 5: carried players win over new arrivals                          *)
midPeriodLineupCarriedFirst(prevCarried, stintLineup) ==
    LET merged == SetAddAll(prevCarried, stintLineup)
    IN  IF Len(merged) > 5 THEN SubSeq(merged, 1, 5) ELSE merged

midPeriodLineup(prevCarried, stintLineup) ==
    capLineup(SetAddAll(stintLineup, subOutCarried(prevCarried, stintLineup)),
              stintLineup)

(* One iteration of the minute loop: the set stored for `m` (and kept as   *)
(* `carried` for the next minute).                                         *)
lineupStep(prevCarried, ranges, m) ==
    LET stintLineup == onCourtAt(ranges, midpoint(m))
    IN  IF minuteInPeriod(m) = 0
        THEN periodStartLineup(prevCarried, stintLineup, periodOfMinute(m))
        ELSE midPeriodLineup(prevCarried, stintLineup)

(* The minute loop: the sequence of sets for minutes 0..maxMin-1 *)
RECURSIVE lineupsUpTo(_, _)
lineupsUpTo(ranges, maxMin) ==
    IF maxMin <= 0 THEN <<>>
    ELSE LET before == lineupsUpTo(ranges, maxMin - 1)
             prevCarried == IF before = <<>> THEN <<>> ELSE before[Len(before)]
         IN  Append(before, lineupStep(prevCarried, ranges, maxMin - 1))

(* The whole function: the stint ranges, then the minute loop *)
buildLineupsByMinute(players, maxMin) ==
    lineupsUpTo(stintRangesOf(players), maxMin)

RECURSIVE MaxOf(_)
MaxOf(nums) ==
    IF Len(nums) = 1 THEN nums[1]
    ELSE LET rest == MaxOf(Tail(nums))
         IN  IF Head(nums) > rest THEN Head(nums) ELSE rest

(* Math.max(4, ...data.players.flatMap((p) => p.stints.map((s) => s.period))) *)
maxPeriod(data) ==
    MaxOf(<<4>> \o Flatten([i \in 1..Len(data.players) |->
                [j \in 1..Len(data.players[i].stints) |->
                    data.players[i].stints[j].period]]))

(* Array.from({ length: maxPeriod }, (_, i) => i + 1) *)
periods(maxPd) == [i \in 1..maxPd |-> i]

(* data.players.filter((p) => p.team === tricode) *)
playersOfTeam(data, tricode) ==
    SelectSeq(data.players, LAMBDA p : p.team = tricode)

(* stints.reduce((s, st) => s + st.minutes, 0) over the first k stints *)
RECURSIVE totalMinutes(_, _)
totalMinutes(stints, k) ==
    IF k = 0 THEN F64OfInt(0)
    ELSE F64Add(totalMinutes(stints, k - 1), stints[k].minutes)

(* [...players].sort((a, b) => total minutes of b - total minutes of a) *)
sortByMinutes(players, engine) ==
    LET total == [i \in 1..Len(players) |->
                      totalMinutes(players[i].stints, Len(players[i].stints))]
        less == [i \in 1..Len(players) |-> [j \in 1..Len(players) |->
                      F64Lt(F64Sub(total[j], total[i]), F64OfInt(0))]]
        order == ArraySort(Len(players), less, engine)
    IN  [k \in 1..Len(players) |-> players[order[k]]]

(* totalGameMinutes counting 12 minutes for every period *)
RECURSIVE totalGameMinutesAllQuarters(_)
totalGameMinutesAllQuarters(pds) ==
    IF pds = <<>> THEN 0
    ELSE 12 + totalGameMinutesAllQuarters(Tail(pds))

(* for (const p of periods) total += p > 4 ? 5 : 12 *)
RECURSIVE totalGameMinutes(_)
totalGameMinutes(pds) ==
    IF pds = <<>> THEN 0
    ELSE (IF Head(pds) > 4 THEN 5 ELSE 12) + totalGameMinutes(Tail(pds))

(* lineups.get(gameMinute)?.has(playerId) *)
inLineup(lineupMap, gameMinute, playerId) ==
    /\ gameMinute + 1 \in 1..Len(lineupMap)
    /\ SetHas(lineupMap[gameMinute + 1], playerId)

(* Does a stint of the player cover the midpoint of gameMinute? *)
hasStint(player, gameMinute) ==
    \E j \in 1..Len(player.stints) :
        \E point \in {midpoint(gameMinute)},
           r \in {stintRange(player.playerId, player.stints[j])} :
            F64Le(r[1], point) /\ F64Lt(point, r[2])

(* The minutes pushed onto `mins` for one period, with the base minute *)
(* given                                                               *)
carriedMins(player, pd, baseMinute, lineupMap) ==
    LET periodLengthMins == IF pd > 4 THEN 5 ELSE 12
    IN  SelectSeq([i \in 1..periodLengthMins |-> i - 1],
                  LAMBDA m : /\ inLineup(lineupMap, baseMinute + m, player.playerId)
                             /\ ~hasStint(player, baseMinute + m))

(* carriedMinutes taking every period to start at (period - 1) * 12 *)
RECURSIVE carriedMinutesQuarterBase(_, _, _)
carriedMinutesQuarterBase(player, pds, lineupMap) ==
    IF pds = <<>> THEN <<>>
    ELSE LET pd == Head(pds)
             mins == carriedMins(player, pd, (pd - 1) * 12, lineupMap)
         IN  (IF Len(mins) > 0 THEN <<[period |-> pd, mins |-> mins]>> ELSE <<>>)
             \o carriedMinutesQuarterBase(player, Tail(pds), lineupMap)

(* PlayerRow's carriedMinutes: the Map period -> minutes in period, as   *)
(* the sequence of its entries in insertion order                        *)
RECURSIVE carriedMinutes(_, _, _)
carriedMinutes(player, pds, lineupMap) ==
    IF pds = <<>> THEN <<>>
    ELSE LET pd == Head(pds)
             baseMinute == IF pd <= 4 THEN (pd - 1) * 12 ELSE 48 + (pd - 5) * 5
             mins == carriedMins(player, pd, baseMinute, lineupMap)
         IN  (IF Len(mins) > 0 THEN <<[period |-> pd, mins |-> mins]>> ELSE <<>>)
             \o carriedMinutes(player, Tail(pds), lineupMap)

----------------------------------------------------------------------------
(* pipeline/transform.py: stint construction and event attribution, as the *)
(* design documents them (sections 4.2 and 4.3).  An event is              *)
(* [player, period, clock, kind]; a rotation record is                     *)
(* [period, inTime, outTime].                                              *)

(* elapsed(period, clock): seconds from the start of the game *)
elapsed(period, clock) == clockToSeconds(period, clock)

EmptyStats ==
    [fgm |-> 0, fga |-> 0, fg3m |-> 0, fg3a |-> 0, ftm |-> 0, fta |-> 0,
     reb |-> 0, oreb |-> 0, ast |-> 0, stl |-> 0, blk |-> 0, tov |-> 0,
     pf |-> 0, pts |-> 0]

(* The fixed event-kind -> stat-field mapping *)
addEvent(stats, kind) ==
    CASE kind = "make2" ->
            [stats EXCEPT !.fgm = @ + 1, !.fga = @ + 1, !.pts = @ + 2]
      [] kind = "miss2" -> [stats EXCEPT !.fga = @ + 1]
      [] kind = "make3" ->
            [stats EXCEPT !.fgm = @ + 1, !.fg3m = @ + 1, !.fga = @ + 1,
                          !.fg3a = @ + 1, !.pts = @ + 3]
      [] kind = "ftm" -> [stats EXCEPT !.ftm = @ + 1, !.fta = @ + 1]
      [] kind = "ftmiss" -> [stats EXCEPT !.fta = @ + 1]
      [] kind = "dreb" -> [stats EXCEPT !.reb = @ + 1]
      [] kind = "oreb" -> [stats EXCEPT !.reb = @ + 1, !.oreb = @ + 1]
      [] kind = "tov" -> [stats EXCEPT !.tov = @ + 1]
      [] kind = "foul" -> [stats EXCEPT !.pf = @ + 1]
      [] kind = "ast" -> [stats EXCEPT !.ast = @ + 1]
      [] kind = "stl" -> [stats EXCEPT !.stl = @ + 1]
      [] kind = "blk" -> [stats EXCEPT !.blk = @ + 1]
      [] OTHER -> stats

RECURSIVE aggregate_stint_stats(_)
aggregate_stint_stats(pbp_events) ==
    IF pbp_events = <<>> THEN EmptyStats
    ELSE addEvent(aggregate_stint_stats(SubSeq(pbp_events, 1, Len(pbp_events) - 1)),
                  pbp_events[Len(pbp_events)].kind)

(* minutes = max(0, elapsed(outClock) - elapsed(inClock)) / 60 *)
compute_stint_minutes(record) ==
    LET length == Sub(elapsed(record.period, record.outTime),
                      elapsed(record.period, record.inTime))
    IN  IF IsNaN(length) THEN F64OfInt(NaN)
        ELSE F64(IF length < 0 THEN 0 ELSE length, 60)

(* Is the in time of the record the out time of another record of the *)
(* player?                                                            *)
sharedStart(record, records) ==
    \E k \in 1..Len(records) :
        /\ records[k] # record
        /\ elapsed(records[k].period, records[k].outTime)
             = elapsed(record.period, record.inTime)
        /\ ~IsNaN(elapsed(record.period, record.inTime))

(* Half-open [in, out) on elapsed time, in exclusive when it is shared *)
(* with the end of another stint of the player                         *)
inWindow(event, record, records) ==
    LET t == elapsed(event.period, event.clock)
        inElapsed == elapsed(record.period, record.inTime)
        outElapsed == elapsed(record.period, record.outTime)
    IN  /\ IF sharedStart(record, records) THEN Lt(inElapsed, t)
           ELSE Le(inElapsed, t)
        /\ Lt(t, outElapsed)

(* The events of the player that fall in the stint's window *)
filter_pbp_for_stint(pbp, player_id, record, records) ==
    SelectSeq(pbp, LAMBDA e : e.player = player_id /\ inWindow(e, record, records))

(* Place record r behind every sorted record that does not start later *)
RECURSIVE InsertByElapsedIn(_, _)
InsertByElapsedIn(sorted, r) ==
    IF sorted = <<>> THEN <<r>>
    ELSE IF Gt(elapsed(Head(sorted).period, Head(sorted).inTime),
               elapsed(r.period, r.inTime))
         THEN <<r>> \o sorted
         ELSE <<Head(sorted)>> \o InsertByElapsedIn(Tail(sorted), r)

RECURSIVE SortByElapsedIn(_)
SortByElapsedIn(records) ==
    IF records = <<>> THEN <<>>
    ELSE InsertByElapsedIn(SortByElapsedIn(SubSeq(records, 1, Len(records) - 1)),
                           records[Len(records)])

(* One Stint per rotation record, in order of elapsed in time, with its *)
(* minutes, its events and their aggregate                               *)
build_stints(player_id, rotation, pbp) ==
    LET sorted == SortByElapsedIn(rotation)
    IN  [i \in 1..Len(sorted) |->
            LET evs == filter_pbp_for_stint(pbp, player_id, sorted[i], sorted)
            IN  [period |-> sorted[i].period,
                 inTime |-> sorted[i].inTime,
                 outTime |-> sorted[i].outTime,
                 minutes |-> compute_stint_minutes(sorted[i]),
                 stats |-> aggregate_stint_stats(evs),
                 events |-> evs]]

----------------------------------------------------------------------------
(* Inputs *)

DigitChar(d) ==
    CASE d = 0 -> "0" [] d = 1 -> "1" [] d = 2 -> "2" [] d = 3 -> "3"
      [] d = 4 -> "4" [] d = 5 -> "5" [] d = 6 -> "6" [] d = 7 -> "7"
      [] d = 8 -> "8" [] d = 9 -> "9"

RECURSIVE ToDigits(_)
ToDigits(n) ==
    IF n < 10 THEN <<DigitChar(n)>>
    ELSE ToDigits(n \div 10) \o <<DigitChar(n % 10)>>

(* The well-formed clock "M:SS" showing m minutes and s seconds remaining *)
FormatClock(m, s) ==
    ToDigits(m) \o <<":">> \o (IF s < 10 THEN <<"0">> ELSE <<>>) \o ToDigits(s)

ClockMinuteChoices == 0..13

ClockSecondChoices == {0, 1, 30, 59}

WellFormedClocks ==
    {FormatClock(m, s) : m \in ClockMinuteChoices, s \in ClockSecondChoices}

MalformedClocks ==
    { <<"x", "x", ":", "x", "x">>,
      <<"1", "2">>,
      <<":", "3", "0">>,
      <<"1", "2", ":">>,
      <<"1", "x", ":", "0", "0">>,
      <<>> }

PlayerIdPool == <<"p1", "p2", "p3", "p4", "p5", "p6">>

Stint(period, inTime, outTime) ==
    [period |-> period, inTime |-> inTime, outTime |-> outTime]

(* The stint lists a player of a team may have in a game followed through  *)
(* the start of the second quarter: the whole first quarter, the first     *)
(* 1:30 of the first quarter (ends on the midpoint of minute 1), the whole *)
(* second quarter, or the second quarter from 10:30 (starts on the         *)
(* midpoint of minute 13).                                                 *)
StintChoices ==
    { <<Stint(1, FormatClock(12, 0), FormatClock(0, 0))>>,
      <<Stint(1, FormatClock(12, 0), FormatClock(10, 30))>>,
      <<Stint(2, FormatClock(12, 0), FormatClock(0, 0))>>,
      <<Stint(2, FormatClock(10, 30), FormatClock(0, 0))>> }

(* The stint lists of a team followed into the third overtime (period 7,   *)
(* game minutes 58..62): the whole overtime, its first 1:30 (covers        *)
(* minute 58 only), or the overtime from 2:30 (starts on the midpoint of   *)
(* minute 60).                                                             *)
OvertimeStintChoices ==
    { <<Stint(7, FormatClock(5, 0), FormatClock(0, 0))>>,
      <<Stint(7, FormatClock(5, 0), FormatClock(3, 30))>>,
      <<Stint(7, FormatClock(2, 30), FormatClock(0, 0))>> }

(* The stint lists of a team followed across the start of the third       *)
(* overtime: the whole second overtime (period 6, game minutes 53..57) or *)
(* the whole third (period 7, from game minute 58).                       *)
OvertimeBoundaryStintChoices ==
    { <<Stint(6, FormatClock(5, 0), FormatClock(0, 0))>>,
      <<Stint(7, FormatClock(5, 0), FormatClock(0, 0))>> }

(* Every team of the pool's six players, each with one of the stint lists *)
Teams(choices) ==
    { [i \in 1..Len(PlayerIdPool) |->
            [playerId |-> PlayerIdPool[i], stints |-> f[i]]] :
        f \in [1..Len(PlayerIdPool) -> choices] }

WidthChoices == {F64(n, d) : n \in 1..MaxWidth, d \in 1..2}

----------------------------------------------------------------------------
(* Lineup reconstruction as a state machine: one step per loop iteration   *)
(* of buildLineupsByMinute.                                                *)

InitLineup ==
    /\ \/ teamPlayers \in Teams(StintChoices) /\ maxMinute = MaxMinute
       \/ teamPlayers \in Teams(OvertimeStintChoices) /\ maxMinute = MaxOvertimeMinute
       \/ /\ teamPlayers \in Teams(OvertimeBoundaryStintChoices)
          /\ maxMinute = MaxOvertimeMinute
    /\ stintRanges = stintRangesOf(teamPlayers)
    /\ minute = 0
    /\ carried = <<>>
    /\ lineups = <<>>
    /\ fn = "buildLineupsByMinute"
    /\ args = <<>>
    /\ ret = <<>>
    /\ pc = "call"
    /\ fetches = <<>>

PeriodStart ==
    /\ fn = "buildLineupsByMinute"
    /\ minute < maxMinute
    /\ minuteInPeriod(minute) = 0
    /\ LET stintLineup == onCourtAt(stintRanges, midpoint(minute))
       IN  carried' = periodStartLineup(carried, stintLineup, periodOfMinute(minute))
    /\ lineups' = Append(lineups, carried')
    /\ minute' = minute + 1
    /\ pc' = IF minute' < maxMinute THEN "call" ELSE "done"
    /\ UNCHANGED <<teamPlayers, stintRanges, maxMinute, fn, args, ret, fetches>>

MidPeriod ==
    /\ fn = "buildLineupsByMinute"
    /\ minute < maxMinute
    /\ minuteInPeriod(minute) # 0
    /\ LET stintLineup == onCourtAt(stintRanges, midpoint(minute))
       IN  carried' = midPeriodLineup(carried, stintLineup)
    /\ lineups' = Append(lineups, carried')
    /\ minute' = minute + 1
    /\ pc' = IF minute' < maxMinute THEN "call" ELSE "done"
    /\ UNCHANGED <<teamPlayers, stintRanges, maxMinute, fn, args, ret, fetches>>

NextLineup == PeriodStart \/ MidPeriod

SpecLineup == InitLineup /\ [][NextLineup]_vars

----------------------------------------------------------------------------
(* The pure functions of timeline.ts: Init draws a call, the action        *)
(* applies the function.                                                   *)

ClockCalls ==
    {<<period, clock>> : period \in 1..MaxPeriods,
                         clock \in WellFormedClocks \cup MalformedClocks}

BoundaryCalls == {<<numPeriods>> : numPeriods \in 0..MaxPeriods}

PixelCalls ==
    {<<F64OfInt(seconds), totalWidth, F64OfInt(totalSeconds)>> :
        seconds \in (0 - 1)..(MaxSeconds + 1),
        totalWidth \in WidthChoices,
        totalSeconds \in 1..MaxSeconds}

(* Clocks, periods, widths and game lengths of the stints laid out on the *)
(* whole-game axis: a regulation game and a game with two overtimes.      *)
StintClockReadings == {<<12, 0>>, <<6, 0>>, <<5, 0>>, <<0, 30>>, <<0, 0>>}

StintPeriodChoices == {1, 2, 4, 5, 6}

StintWidthChoices == {F64OfInt(1000), F64OfInt(2880)}

StintTotalSecondsChoices ==
    {TOTAL_REGULATION_SECONDS, TOTAL_REGULATION_SECONDS + 2 * OT_DURATION_SECONDS}

(* <<inTime, outTime, period>> with the in clock not below the out clock *)
StintArgs ==
    {<<FormatClock(c[1][1], c[1][2]), FormatClock(c[2][1], c[2][2]), period>> :
        c \in {d \in StintClockReadings \X StintClockReadings :
                  60 * d[1][1] + d[1][2] >= 60 * d[2][1] + d[2][2]},
        period \in StintPeriodChoices}

(* Two stints laid out with the same totalWidth and totalSeconds *)
StintPixelCalls ==
    {<<a, b, totalWidth, F64OfInt(totalSeconds)>> :
        a \in StintArgs, b \in StintArgs,
        totalWidth \in StintWidthChoices,
        totalSeconds \in StintTotalSecondsChoices}

InitTimeline ==
    /\ teamPlayers = <<>>
    /\ stintRanges = <<>>
    /\ maxMinute = 0
    /\ minute = 0
    /\ carried = <<>>
    /\ lineups = <<>>
    /\ \/ fn = "clockToSeconds" /\ args \in ClockCalls
       \/ fn = "getQuarterBoundaries" /\ args \in BoundaryCalls
       \/ fn = "secondsToPixelX" /\ args \in PixelCalls
       \/ fn = "getStintPixelRange" /\ args \in StintPixelCalls
    /\ ret = <<>>
    /\ pc = "call"
    /\ fetches = <<>>

ApplyClockToSeconds ==
    /\ pc = "call"
    /\ fn = "clockToSeconds"
    /\ ret' = clockToSeconds(args[1], args[2])
    /\ pc' = "done"
    /\ UNCHANGED <<teamPlayers, stintRanges, maxMinute, minute, carried, lineups, fn, args, fetches>>

ApplyGetQuarterBoundaries ==
    /\ pc = "call"
    /\ fn = "getQuarterBoundaries"
    /\ ret' = getQuarterBoundaries(args[1])
    /\ pc' = "done"
    /\ UNCHANGED <<teamPlayers, stintRanges, maxMinute, minute, carried, lineups, fn, args, fetches>>

ApplySecondsToPixelX ==
    /\ pc = "call"
    /\ fn = "secondsToPixelX"
    /\ ret' = secondsToPixelX(args[1], args[2], args[3])
    /\ pc' = "done"
    /\ UNCHANGED <<teamPlayers, stintRanges, maxMinute, minute, carried, lineups, fn, args, fetches>>

(* Both stints of the call are laid out *)
ApplyGetStintPixelRange ==
    /\ pc = "call"
    /\ fn = "getStintPixelRange"
    /\ ret' = <<getStintPixelRange(args[1][1], args[1][2], args[1][3],
                                   args[3], args[4]),
                getStintPixelRange(args[2][1], args[2][2], args[2][3],
                                   args[3], args[4])>>
    /\ pc' = "done"
    /\ UNCHANGED <<teamPlayers, stintRanges, maxMinute, minute, carried, lineups, fn, args, fetches>>

NextTimeline ==
    \/ ApplyClockToSeconds
    \/ ApplyGetQuarterBoundaries
    \/ ApplySecondsToPixelX
    \/ ApplyGetStintPixelRange

SpecTimeline == InitTimeline /\ [][NextTimeline]_vars

----------------------------------------------------------------------------
(* One period block of the rendered timeline: the header cell of the       *)
(* quarter headers row and the segment lanes of two player rows.           *)

(* Elapsed seconds at which the stints of a period may start or end: the  *)
(* period's start, 1, 30 and 31 seconds in, and the period's end          *)
SegmentBreaks(period) ==
    <<0, 1, 30, 31, IF period > 4 THEN OT_SECONDS ELSE QUARTER_SECONDS>>

(* The countdown clock showing at elapsed second e of the period *)
ClockAtElapsed(period, e) ==
    LET remaining == (IF period > 4 THEN OT_SECONDS ELSE QUARTER_SECONDS) - e
    IN  FormatClock(remaining \div 60, remaining % 60)

(* Per gap between consecutive breaks: the player is off court, starts a  *)
(* stint, or continues the stint of the gap before                        *)
GapLayouts ==
    {f \in [1..4 -> {"off", "new", "cont"}] :
        \A i \in 1..4 : f[i] = "cont" => (i > 1 /\ f[i - 1] # "off")}

RECURSIVE StintEndGap(_, _)
StintEndGap(f, i) ==
    IF i < 4 /\ f[i + 1] = "cont" THEN StintEndGap(f, i + 1) ELSE i

(* The non-overlapping stints of layout f from gap i on, in game order *)
RECURSIVE LayoutStints(_, _, _)
LayoutStints(f, period, i) ==
    IF i > 4 THEN <<>>
    ELSE (IF f[i] = "new"
          THEN <<Stint(period,
                       ClockAtElapsed(period, SegmentBreaks(period)[i]),
                       ClockAtElapsed(period,
                           SegmentBreaks(period)[StintEndGap(f, i) + 1]))>>
          ELSE <<>>)
         \o LayoutStints(f, period, i + 1)

Reverse(seq) == [i \in 1..Len(seq) |-> seq[Len(seq) + 1 - i]]

(* A stint of another period in the player's list *)
OtherPeriodStint(period) ==
    Stint(IF period = 2 THEN 3 ELSE 2, FormatClock(12, 0), FormatClock(0, 0))

(* A player's stint list: the stints of the period in game order, in      *)
(* reverse order, or behind a stint of another period; and one list of    *)
(* five stints to the end of the period, two of them with an in-time      *)
(* that is no clock                                                       *)
PlayerStintLists(period) ==
    {LayoutStints(f, period, 1) : f \in GapLayouts}
    \cup {Reverse(LayoutStints(f, period, 1)) : f \in GapLayouts}
    \cup {<<OtherPeriodStint(period)>> \o LayoutStints(f, period, 1) :
            f \in GapLayouts}
    \cup {LET end == ClockAtElapsed(period, SegmentBreaks(period)[5])
              noClock == <<"x", "x">>
          IN  <<Stint(period, ClockAtElapsed(period, 3), end),
                Stint(period, noClock, end),
                Stint(period, ClockAtElapsed(period, 2), end),
                Stint(period, noClock, end),
                Stint(period, ClockAtElapsed(period, 1), end)>>}

RenderedPeriods == {1, 5}

(* Two player rows of a period: any stint list over one whose stints are  *)
(* in game order                                                           *)
RenderCallsOf(period) ==
    {<<a, b, period>> : a \in PlayerStintLists(period),
                        b \in {LayoutStints(f, period, 1) : f \in GapLayouts}}

RenderCalls == UNION {RenderCallsOf(period) : period \in RenderedPeriods}

InitRender ==
    /\ teamPlayers = <<>>
    /\ stintRanges = <<>>
    /\ maxMinute = 0
    /\ minute = 0
    /\ carried = <<>>
    /\ lineups = <<>>
    /\ fn = "renderPeriod"
    /\ args \in RenderCalls
    /\ ret = <<>>
    /\ pc = "call"
    /\ fetches = <<>>

(* The header cell of the period and the segments of both player rows *)
RenderPeriod ==
    /\ pc = "call"
    /\ fn = "renderPeriod"
    /\ \E engine \in SortEngines :
         ret' = [header |-> quarterHeaderWidth(args[3]),
                 lanes |-> <<buildQuarterSegments(args[1], args[3], engine),
                             buildQuarterSegments(args[2], args[3], engine)>>]
    /\ pc' = "done"
    /\ UNCHANGED <<teamPlayers, stintRanges, maxMinute, minute, carried, lineups, fn, args, fetches>>

NextRender == RenderPeriod

SpecRender == InitRender /\ [][NextRender]_vars

----------------------------------------------------------------------------
(* The GameflowTimeline component for one team: the game length from the  *)
(* highest period of the data, the minute loop of buildLineupsByMinute    *)
(* over the team's players, then the carry-over minutes of each player    *)
(* row.                                                                    *)

HomeTricode == "HOM"

AwayTricode == "AWY"

(* A stint of the data with its minutes field *)
GameStint(period, inTime, outTime, minutes) ==
    [period |-> period, inTime |-> inTime, outTime |-> outTime,
     minutes |-> minutes]

(* Stint lists of a player of the game: none, the whole first quarter,    *)
(* 10:30..6:00 of the first quarter and the last six minutes of the       *)
(* fourth, the whole first overtime, the first half of the second         *)
(* overtime                                                               *)
GameStintChoices ==
    { <<>>,
      <<GameStint(1, FormatClock(12, 0), FormatClock(0, 0), F64OfInt(12))>>,
      <<GameStint(1, FormatClock(10, 30), FormatClock(6, 0), F64(9, 2)),
        GameStint(4, FormatClock(6, 0), FormatClock(0, 0), F64OfInt(6))>>,
      <<GameStint(5, FormatClock(5, 0), FormatClock(0, 0), F64OfInt(5))>>,
      <<GameStint(6, FormatClock(5, 0), FormatClock(2, 30), F64(5, 2))>> }

(* The players the data may list: two of the home team, one of the away   *)
(* team                                                                    *)
GameRoster ==
    <<[playerId |-> "h1", team |-> HomeTricode],
      [playerId |-> "h2", team |-> HomeTricode],
      [playerId |-> "a1", team |-> AwayTricode]>>

RECURSIVE RosterPlayers(_, _, _)
RosterPlayers(present, stintsOf, i) ==
    IF i > Len(GameRoster) THEN <<>>
    ELSE (IF i \in present
          THEN <<[playerId |-> GameRoster[i].playerId,
                  team |-> GameRoster[i].team,
                  stints |-> stintsOf[i]]>>
          ELSE <<>>)
         \o RosterPlayers(present, stintsOf, i + 1)

Games ==
    {[players |-> RosterPlayers(present, stintsOf, 1),
      homeTeam |-> [tricode |-> HomeTricode],
      awayTeam |-> [tricode |-> AwayTricode]] :
        present \in SUBSET (1..Len(GameRoster)),
        stintsOf \in [1..Len(GameRoster) -> GameStintChoices]}

InitGame ==
    /\ teamPlayers = <<>>
    /\ stintRanges = <<>>
    /\ maxMinute = 0
    /\ minute = 0
    /\ carried = <<>>
    /\ lineups = <<>>
    /\ fn = "GameflowTimeline"
    /\ args \in {[data |-> data, tricode |-> tricode] :
                    data \in Games, tricode \in {HomeTricode, AwayTricode}}
    /\ ret = <<>>
    /\ pc = "call"
    /\ fetches = <<>>

(* maxPeriod, periods, the team's players and totalGameMinutes; then the  *)
(* call of buildLineupsByMinute                                           *)
CallBuildLineups ==
    /\ fn = "GameflowTimeline"
    /\ pc = "call"
    /\ teamPlayers' = playersOfTeam(args.data, args.tricode)
    /\ stintRanges' = stintRangesOf(teamPlayers')
    /\ maxMinute' = totalGameMinutes(periods(maxPeriod(args.data)))
    /\ fn' = "buildLineupsByMinute"
    /\ UNCHANGED <<minute, carried, lineups, args, ret, pc, fetches>>

(* One PlayerRow per player of the team, in the order of sortByMinutes,   *)
(* each computing its carriedMinutes from the team's lineup map          *)
RenderPlayerRows ==
    /\ fn = "buildLineupsByMinute"
    /\ pc = "done"
    /\ \E engine \in SortEngines :
         \E sorted \in {sortByMinutes(teamPlayers, engine)} :
            ret' = [k \in 1..Len(sorted) |->
                      [player |-> sorted[k],
                       carriedMinutes |->
                           carriedMinutes(sorted[k],
                                          periods(maxPeriod(args.data)),
                                          lineups)]]
    /\ fn' = "PlayerRow"
    /\ UNCHANGED <<teamPlayers, stintRanges, maxMinute, minute, carried, lineups, args, pc, fetches>>

NextGame ==
    \/ CallBuildLineups
    \/ PeriodStart
    \/ MidPeriod
    \/ RenderPlayerRows

SpecGame == InitGame /\ [][NextGame]_vars

----------------------------------------------------------------------------
(* Stint construction and event attribution for one player: Init draws    *)
(* the player's rotation records and the play-by-play events of the game. *)

Event(player, period, clock, kind) ==
    [player |-> player, period |-> period, clock |-> clock, kind |-> kind]

(* Rotation records of player "p1": none; 12:00..1:54 of the first        *)
(* quarter; two stints sharing the boundary 6:00, in game order and in    *)
(* reverse; two stints sharing the end of the first quarter; two stints   *)
(* with a gap                                                             *)
RotationChoices ==
    { <<>>,
      <<Stint(1, FormatClock(12, 0), FormatClock(1, 54))>>,
      <<Stint(1, FormatClock(12, 0), FormatClock(6, 0)),
        Stint(1, FormatClock(6, 0), FormatClock(0, 0))>>,
      <<Stint(1, FormatClock(6, 0), FormatClock(0, 0)),
        Stint(1, FormatClock(12, 0), FormatClock(6, 0))>>,
      <<Stint(1, FormatClock(6, 0), FormatClock(0, 0)),
        Stint(2, FormatClock(12, 0), FormatClock(6, 0))>>,
      <<Stint(1, FormatClock(12, 0), FormatClock(8, 15)),
        Stint(2, FormatClock(12, 0), FormatClock(6, 0))>> }

(* The play-by-play events a game may hold, in game order *)
EventPool ==
    <<Event("p1", 1, FormatClock(10, 30), "make2"),
      Event("p2", 1, FormatClock(10, 30), "foul"),
      Event("p1", 1, FormatClock(8, 15), "dreb"),
      Event("p1", 1, FormatClock(6, 0), "make3"),
      Event("p1", 1, FormatClock(1, 55), "ftm"),
      Event("p1", 1, <<"x", "x", ":", "x", "x">>, "tov"),
      Event("p1", 1, FormatClock(0, 0), "miss2"),
      Event("p1", 2, FormatClock(12, 0), "oreb")>>

RECURSIVE PoolEvents(_, _)
PoolEvents(chosen, i) ==
    IF i > Len(EventPool) THEN <<>>
    ELSE (IF i \in chosen THEN <<EventPool[i]>> ELSE <<>>)
         \o PoolEvents(chosen, i + 1)

EventLists == {PoolEvents(chosen, 1) : chosen \in SUBSET (1..Len(EventPool))}

InitAttribution ==
    /\ teamPlayers = <<>>
    /\ stintRanges = <<>>
    /\ maxMinute = 0
    /\ minute = 0
    /\ carried = <<>>
    /\ lineups = <<>>
    /\ fn = "build_stints"
    /\ args \in {[player_id |-> "p1", rotation |-> rotation, pbp |-> pbp] :
                    rotation \in RotationChoices, pbp \in EventLists}
    /\ ret = <<>>
    /\ pc = "call"
    /\ fetches = <<>>

AttributeEvents ==
    /\ pc = "call"
    /\ fn = "build_stints"
    /\ ret' = build_stints(args.player_id, args.rotation, args.pbp)
    /\ pc' = "done"
    /\ UNCHANGED <<teamPlayers, stintRanges, maxMinute, minute, carried, lineups, fn, args, fetches>>

NextAttribution == AttributeEvents

SpecAttribution == InitAttribution /\ [][NextAttribution]_vars

----------------------------------------------------------------------------
(* web/src/hooks/useJsonData.ts and web/src/pages/GameflowPage.tsx.        *)
(* args = <<url>> is the hook's argument at the latest render, ret its     *)
(* { data, loading, error }, fetches the promise chains not yet settled.   *)
(* null (data, error) is the record Null; the null url is NullUrl.         *)

MaxInFlight == 3

Null == [kind |-> "null"]

NullUrl == "null"

Urls == {"data/games/A/gameflow.json", "data/games/B/gameflow.json"}

HttpStatuses == {404, 500}

(* new Error(`HTTP ${response.status}: Failed to fetch ${url}`) *)
HttpError(status, url) ==
    [kind |-> "Error", name |-> "Error",
     message |-> <<"HTTP ", status, ": Failed to fetch ", url>>]

(* Reasons fetch may reject with: a network TypeError, or a value that is *)
(* not an Error                                                           *)
RejectionReasons(url) ==
    {[kind |-> "Error", name |-> "TypeError", message |-> <<"Failed to fetch ", url>>],
     [kind |-> "string", value |-> <<"string error ", url>>]}

(* The reason response.json() rejects with on a malformed body *)
SyntaxError(url) ==
    [kind |-> "Error", name |-> "SyntaxError", message |-> <<"Unexpected token ", url>>]

(* The reason an aborted fetch rejects with *)
AbortError ==
    [kind |-> "Error", name |-> "AbortError", message |-> <<"The operation was aborted">>]

(* Bodies the server may hold for a url: JSON null, an object without    *)
(* players, with an empty players array, with one player                 *)
JsonBodies(url) ==
    {Null,
     [kind |-> "object", gameId |-> url],
     [kind |-> "object", gameId |-> url, players |-> <<>>],
     [kind |-> "object", gameId |-> url, players |-> <<"p1">>]}

IdleState == [data |-> Null, loading |-> FALSE, error |-> Null]

(* The effect body for a url that is not null: setLoading(true);        *)
(* setError(null)                                                        *)
startLoading(state) == [state EXCEPT !.loading = TRUE, !.error = Null]

(* .then((json) => { setData(json); setLoading(false); }) *)
onJson(state, json) == [state EXCEPT !.data = json, !.loading = FALSE]

(* .catch((err) => { ... }) *)
onRejected(state, err) ==
    IF err.kind = "Error" /\ err.name = "AbortError" THEN state
    ELSE [data |-> Null,
          loading |-> FALSE,
          error |-> IF err.kind = "Error" THEN err
                    ELSE [kind |-> "Error", name |-> "Error", message |-> err.value]]

(* The cleanup of the previous effect: abortController.abort() *)
cleanup(pending) ==
    [i \in 1..Len(pending) |-> [pending[i] EXCEPT !.aborted = TRUE]]

(* fetch(url, { signal }) of the effect *)
startFetch(pending, url) ==
    Append(pending, [url |-> url, aborted |-> FALSE, stage |-> "fetch"])

Remove(pending, i) ==
    SubSeq(pending, 1, i - 1) \o SubSeq(pending, i + 1, Len(pending))

(* GameflowPage with the test of the players array left out *)
GameflowPageNoPlayersTest(hook) ==
    IF hook.loading THEN "loading"
    ELSE IF hook.error # Null \/ hook.data = Null THEN "fallback"
    ELSE "timeline"

(* What GameflowPage renders for the hook's result *)
GameflowPage(hook) ==
    IF hook.loading THEN "loading"
    ELSE IF \/ hook.error # Null
            \/ hook.data = Null
            \/ "players" \notin DOMAIN hook.data
            \/ Len(hook.data.players) = 0
         THEN "fallback"
    ELSE "timeline"

InitFetch ==
    /\ teamPlayers = <<>>
    /\ stintRanges = <<>>
    /\ maxMinute = 0
    /\ minute = 0
    /\ carried = <<>>
    /\ lineups = <<>>
    /\ fn = "useJsonData"
    /\ args \in {<<url>> : url \in Urls \cup {NullUrl}}
    /\ ret = IdleState
    /\ pc = "call"
    /\ fetches = <<>>

(* The effect after the first render *)
Mount ==
    /\ fn = "useJsonData"
    /\ pc = "call"
    /\ pc' = "mounted"
    /\ IF args[1] = NullUrl
       THEN UNCHANGED <<ret, fetches>>
       ELSE /\ ret' = startLoading(ret)
            /\ fetches' = startFetch(fetches, args[1])
    /\ UNCHANGED <<teamPlayers, stintRanges, maxMinute, minute, carried, lineups, fn, args>>

(* A render with another url: the hook returns the state it has; the     *)
(* effect of this render has not run yet.  The code sets no limit on the *)
(* chains in flight; MaxInFlight bounds the state space.                 *)
Render(url) ==
    /\ fn = "useJsonData"
    /\ pc = "mounted"
    /\ url # args[1]
    /\ url = NullUrl \/ Len(fetches) < MaxInFlight
    /\ args' = <<url>>
    /\ pc' = "rendered"
    /\ UNCHANGED <<teamPlayers, stintRanges, maxMinute, minute, carried, lineups, fn, ret, fetches>>

(* After a render with another url: the cleanup of the previous effect,  *)
(* then the effect for the new url                                       *)
ChangeUrl ==
    /\ fn = "useJsonData"
    /\ pc = "rendered"
    /\ pc' = "mounted"
    /\ IF args[1] = NullUrl
       THEN /\ fetches' = cleanup(fetches)
            /\ UNCHANGED ret
       ELSE /\ ret' = startLoading(ret)
            /\ fetches' = startFetch(cleanup(fetches), args[1])
    /\ UNCHANGED <<teamPlayers, stintRanges, maxMinute, minute, carried, lineups, fn, args>>

(* The component unmounts: the cleanup of the last effect *)
Unmount ==
    /\ fn = "useJsonData"
    /\ pc = "mounted"
    /\ pc' = "unmounted"
    /\ fetches' = cleanup(fetches)
    /\ UNCHANGED <<teamPlayers, stintRanges, maxMinute, minute, carried, lineups, fn, args, ret>>

(* Chain i waits for fetch (stage "fetch") or for response.json()        *)
(* (stage "json")                                                        *)
Live(i, stage) ==
    /\ fn = "useJsonData"
    /\ i \in 1..Len(fetches)
    /\ fetches[i].stage = stage

(* A state setter called by a callback: React drops it once the          *)
(* component is unmounted                                                *)
SetState(state) == ret' = IF pc = "unmounted" THEN ret ELSE state

(* fetch resolves with an ok response: response.json() is awaited.  A    *)
(* fetch that is aborted while it is pending rejects instead.            *)
ResponseOk(i) ==
    /\ Live(i, "fetch")
    /\ ~fetches[i].aborted
    /\ fetches' = [fetches EXCEPT ![i].stage = "json"]
    /\ UNCHANGED <<teamPlayers, stintRanges, maxMinute, minute, carried, lineups, fn, args, ret, pc>>

(* fetch resolves with a response that is not ok: the handler throws *)
ResponseNotOk(i, status) ==
    /\ Live(i, "fetch")
    /\ ~fetches[i].aborted
    /\ SetState(onRejected(ret, HttpError(status, fetches[i].url)))
    /\ fetches' = Remove(fetches, i)
    /\ UNCHANGED <<teamPlayers, stintRanges, maxMinute, minute, carried, lineups, fn, args, pc>>

(* fetch rejects *)
FetchRejected(i, err) ==
    /\ Live(i, "fetch")
    /\ ~fetches[i].aborted
    /\ SetState(onRejected(ret, err))
    /\ fetches' = Remove(fetches, i)
    /\ UNCHANGED <<teamPlayers, stintRanges, maxMinute, minute, carried, lineups, fn, args, pc>>

(* response.json() resolves.  The callbacks do not look at the signal:   *)
(* where the platform lets the body of an aborted fetch resolve, this    *)
(* step is taken for an aborted chain as well.                           *)
JsonParsed(i, json) ==
    /\ Live(i, "json")
    /\ SetState(onJson(ret, json))
    /\ fetches' = Remove(fetches, i)
    /\ UNCHANGED <<teamPlayers, stintRanges, maxMinute, minute, carried, lineups, fn, args, pc>>

(* response.json() rejects on a malformed body *)
JsonRejected(i) ==
    /\ Live(i, "json")
    /\ SetState(onRejected(ret, SyntaxError(fetches[i].url)))
    /\ fetches' = Remove(fetches, i)
    /\ UNCHANGED <<teamPlayers, stintRanges, maxMinute, minute, carried, lineups, fn, args, pc>>

(* The chain of an aborted fetch rejects with the AbortError: always     *)
(* while fetch is pending, and where the platform errors the body of an  *)
(* aborted fetch also while response.json() is.                          *)
AbortedSettles(i) ==
    /\ fn = "useJsonData"
    /\ i \in 1..Len(fetches)
    /\ fetches[i].aborted
    /\ SetState(onRejected(ret, AbortError))
    /\ fetches' = Remove(fetches, i)
    /\ UNCHANGED <<teamPlayers, stintRanges, maxMinute, minute, carried, lineups, fn, args, pc>>

Settles(i) ==
    \/ ResponseOk(i)
    \/ \E status \in HttpStatuses : ResponseNotOk(i, status)
    \/ \E err \in RejectionReasons(fetches[i].url) : FetchRejected(i, err)
    \/ \E json \in JsonBodies(fetches[i].url) : JsonParsed(i, json)
    \/ JsonRejected(i)
    \/ AbortedSettles(i)

NextFetch ==
    \/ Mount
    \/ \E url \in Urls \cup {NullUrl} : Render(url)
    \/ ChangeUrl
    \/ Unmount
    \/ \E i \in 1..Len(fetches) : Settles(i)

SpecFetch == InitFetch /\ [][NextFetch]_vars

(* Every promise chain settles and every pending effect runs *)
SpecFetchFair ==
    /\ SpecFetch
    /\ WF_vars(\E i \in 1..Len(fetches) : Settles(i))
    /\ WF_vars(ChangeUrl)

(* The stepwise loop and the whole function agree *)
LoopMatchesFunction ==
    (fn = "buildLineupsByMinute" /\ pc = "done") =>
        lineups = buildLineupsByMinute(teamPlayers, maxMinute)

----------------------------------------------------------------------------
(* Vocabulary of the lineup properties.  A stint covers the midpoint of    *)
(* game minute m when start <= m + 0.5 < end on the absolute game clock    *)
(* (seconds from game start, as timeline.ts computes them).                *)

StintInterval(stint) ==
    <<clockToSeconds(stint.period, stint.inTime),
      clockToSeconds(stint.period, stint.outTime)>>

RECURSIVE StintIntervals(_)
StintIntervals(stints) ==
    IF stints = <<>> THEN <<>>
    ELSE <<StintInterval(Head(stints))>> \o StintIntervals(Tail(stints))

RECURSIVE TeamIntervals(_)
TeamIntervals(players) ==
    IF players = <<>> THEN <<>>
    ELSE <<[playerId |-> Head(players).playerId,
            intervals |-> StintIntervals(Head(players).stints)]>>
         \o TeamIntervals(Tail(players))

Covers(interval, m) ==
    Le(interval[1], 60 * m + 30) /\ Lt(60 * m + 30, interval[2])

(* Players with a stint covering the midpoint of minute m *)
LiveAt(team, m) ==
    {team[i].playerId : i \in
        {k \in 1..Len(team) :
            \E j \in 1..Len(team[k].intervals) : Covers(team[k].intervals[j], m)}}

(* Players with a stint covering the midpoint of some minute in 0..m *)
CourtTimeBy(team, m) ==
    {team[i].playerId : i \in
        {k \in 1..Len(team) :
            \E j \in 1..Len(team[k].intervals) :
                \E n \in 0..m : Covers(team[k].intervals[j], n)}}

(* buildLineupsByMinute has returned: the loop has run to maxMinute *)
Returned == fn = "buildLineupsByMinute" /\ pc = "done"

StoredMinutes == 0..(Len(lineups) - 1)

Snapshot(m) == Elements(lineups[m + 1])

(* First game minute of each period: quarters of 12, overtimes of 5 *)
PeriodFirstMinutes == {0, 12, 24, 36} \cup {48 + 5 * k : k \in 0..9}

----------------------------------------------------------------------------
(* C1: every stored snapshot contains at most 5 player ids, for every team *)
(* input, also when 6 or more players have stints covering the same        *)
(* midpoint.                                                               *)
C1_AtMostFive ==
    Returned => \A m \in StoredMinutes : Cardinality(Snapshot(m)) <= 5

(* C2: every player with a stint covering the midpoint of minute m is in   *)
(* the snapshot stored for m; the period-start merge, the sub-out removal  *)
(* and the cap trimming never remove such a player.                        *)
C2_LiveKept ==
    Returned =>
        LET team == TeamIntervals(teamPlayers)
        IN  \A m \in StoredMinutes : LiveAt(team, m) \subseteq Snapshot(m)

(* The cap trimming acted at a mid-period minute (the previous snapshot    *)
(* held more than 5, fewer than 5 are live) while live players were        *)
(* present.                                                                *)
C2_Witness ==
    /\ Returned
    /\ LET team == TeamIntervals(teamPlayers)
       IN  \E m \in StoredMinutes :
            /\ m >= 1
            /\ m \notin PeriodFirstMinutes
            /\ Cardinality(Snapshot(m - 1)) > 5
            /\ LiveAt(team, m) # {}
            /\ Cardinality(LiveAt(team, m)) < 5
            /\ Cardinality(Snapshot(m)) = 5

(* C3: every player id in the snapshot for minute m has a stint covering   *)
(* the midpoint of m or of an earlier minute.                              *)
C3_NoFabrication ==
    Returned =>
        LET team == TeamIntervals(teamPlayers)
        IN  \A m \in StoredMinutes : Snapshot(m) \subseteq CourtTimeBy(team, m)

(* A snapshot holds a carried player, one with no stint covering m, next   *)
(* to live players.                                                        *)
C3_Witness ==
    /\ Returned
    /\ LET team == TeamIntervals(teamPlayers)
       IN  \E m \in StoredMinutes :
            /\ Snapshot(m) \ LiveAt(team, m) # {}
            /\ LiveAt(team, m) # {}

C4_Case(team, m) ==
    /\ m >= 12
    /\ m \notin PeriodFirstMinutes
    /\ Cardinality(Snapshot(m - 1)) = 5
    /\ Cardinality(Snapshot(m - 1) \ LiveAt(team, m)) = 1
    /\ Cardinality(LiveAt(team, m) \ Snapshot(m - 1)) = 1
    /\ Cardinality(LiveAt(team, m)) = 5

(* C4: at a non-boundary minute of period 2 or later, when the previous    *)
(* snapshot has 5 players of whom exactly one is not live and the live set *)
(* is the other four plus one new player, the snapshot has exactly 5 ids,  *)
(* contains the new player and no longer contains the carried player.      *)
C4_OneCarriedDropped ==
    Returned =>
        LET team == TeamIntervals(teamPlayers)
        IN  \A m \in StoredMinutes :
                C4_Case(team, m) =>
                    /\ Cardinality(Snapshot(m)) = 5
                    /\ (LiveAt(team, m) \ Snapshot(m - 1)) \subseteq Snapshot(m)
                    /\ (Snapshot(m - 1) \ LiveAt(team, m)) \cap Snapshot(m) = {}

(* The case of C4 occurred at a stored minute. *)
C4_Witness ==
    /\ Returned
    /\ LET team == TeamIntervals(teamPlayers)
       IN  \E m \in StoredMinutes : C4_Case(team, m)

(* C5: the snapshot for minute 0 is exactly the set of players with a      *)
(* stint covering 0.5 minutes, whatever its size.                          *)
C5_FirstMinuteIsStintLineup ==
    (Returned /\ Len(lineups) >= 1) =>
        LET team == TeamIntervals(teamPlayers)
        IN  /\ Snapshot(0) = LiveAt(team, 0)
            /\ Len(lineups[1]) = Cardinality(LiveAt(team, 0))

(* Minute 0 is stored with fewer than 5 live players. *)
C5_Witness ==
    /\ Returned
    /\ Len(lineups) >= 1
    /\ LET team == TeamIntervals(teamPlayers)
       IN  /\ Cardinality(LiveAt(team, 0)) \in 1..4
           /\ Snapshot(0) = LiveAt(team, 0)

----------------------------------------------------------------------------
(* Vocabulary of the clock properties *)

Applied(name) == fn = name /\ pc = "done"

(* Start offset and duration of period p, as the data model states them *)
PeriodStartOffset(p) == IF p <= 4 THEN 720 * (p - 1) ELSE 2880 + 300 * (p - 5)

PeriodLength(p) == IF p <= 4 THEN 720 ELSE 300

ClockReadings == ClockMinuteChoices \X ClockSecondChoices

(* The readings with 0 <= clockRemaining <= periodDuration(p) *)
ValidReadings(p) == {r \in ClockReadings : 60 * r[1] + r[2] <= PeriodLength(p)}

FullClock(p) == IF p <= 4 THEN FormatClock(12, 0) ELSE FormatClock(5, 0)

(* C7: for every period p and well-formed clock "M:SS", clockToSeconds     *)
(* is the start offset of p plus periodDuration(p) - (60*M + S); the five  *)
(* listed values follow.                                                   *)
C7_ElapsedFormula ==
    Applied("clockToSeconds") =>
        /\ \A r \in ClockReadings :
                args[2] = FormatClock(r[1], r[2]) =>
                    ret = PeriodStartOffset(args[1]) + PeriodLength(args[1])
                          - (60 * r[1] + r[2])
        /\ args = <<1, FormatClock(12, 0)>> => ret = 0
        /\ args = <<1, FormatClock(0, 0)>> => ret = 720
        /\ args = <<2, FormatClock(12, 0)>> => ret = 720
        /\ args = <<5, FormatClock(5, 0)>> => ret = 2880
        /\ args = <<5, FormatClock(0, 0)>> => ret = 3180

(* The end of the first overtime has been converted. *)
C7_Witness ==
    /\ Applied("clockToSeconds")
    /\ args = <<5, FormatClock(0, 0)>>
    /\ ret = 3180

(* C8: over the clocks with 0 <= clockRemaining <= periodDuration(period), *)
(* clockToSeconds is non-negative, strictly larger for a smaller remaining *)
(* clock of the same period, never larger than a value of the next period, *)
(* and the end of a period equals the start of the next.                   *)
C8_Monotonic ==
    Applied("clockToSeconds") =>
        LET p == args[1]
        IN  \A r \in ValidReadings(p) :
                args[2] = FormatClock(r[1], r[2]) =>
                    /\ ret >= 0
                    /\ \A q \in ValidReadings(p) :
                            60 * q[1] + q[2] < 60 * r[1] + r[2] =>
                                clockToSeconds(p, FormatClock(q[1], q[2])) > ret
                    /\ \A q \in ValidReadings(p + 1) :
                            ret <= clockToSeconds(p + 1, FormatClock(q[1], q[2]))
                    /\ (r[1] = 0 /\ r[2] = 0) =>
                            ret = clockToSeconds(p + 1, FullClock(p + 1))

(* The end of regulation has been converted: it meets the start of the     *)
(* first overtime.                                                         *)
C8_Witness ==
    /\ Applied("clockToSeconds")
    /\ args = <<4, FormatClock(0, 0)>>
    /\ ret = clockToSeconds(5, FormatClock(5, 0))

(* C9: getQuarterBoundaries(numPeriods) has one entry per period           *)
(* 1..numPeriods in order, starts at 0, and each entry starts where the    *)
(* previous one ends.                                                      *)
C9_Contiguous ==
    (Applied("getQuarterBoundaries") /\ args[1] >= 1) =>
        /\ Len(ret) = args[1]
        /\ \A i \in 1..Len(ret) : ret[i].period = i
        /\ ret[1].startSeconds = 0
        /\ \A i \in 1..(Len(ret) - 1) : ret[i + 1].startSeconds = ret[i].endSeconds

(* Boundaries were built across regulation and at least two overtimes. *)
C9_Witness ==
    /\ Applied("getQuarterBoundaries")
    /\ args[1] >= 6
    /\ Len(ret) = args[1]
    /\ ret[6].startSeconds = ret[5].endSeconds

(* C10: secondsToPixelX(0, W, T) = 0, secondsToPixelX(T, W, T) = W, and    *)
(* doubling totalWidth doubles the result for every seconds value.         *)
C10_LinearExact ==
    Applied("secondsToPixelX") =>
        /\ args[1] = F64OfInt(0) => ret = F64OfInt(0)
        /\ args[1] = args[3] => ret = args[2]
        /\ secondsToPixelX(args[1], F64Mul(F64OfInt(2), args[2]), args[3])
             = F64Mul(F64OfInt(2), ret)

(* The right end was mapped for a fractional width. *)
C10_Witness ==
    /\ Applied("secondsToPixelX")
    /\ args[1] = args[3]
    /\ \E n \in 1..MaxWidth : n % 2 = 1 /\ args[2] = F64(n, 2)
    /\ ret = args[2]

----------------------------------------------------------------------------
(* Vocabulary of the stint layout properties *)

(* |a - b| <= tol *)
F64Within(a, b, tol) == F64Le(F64Abs(F64Sub(a, b)), tol)

RangeEnd(range) == F64Add(range.x, range.width)

(* C11: two stints with the same period and outTime, laid out with the     *)
(* same totalWidth and totalSeconds, have end coordinates x + width equal  *)
(* to within 0.1, whatever their inTime values.                            *)
C11_SameEnd ==
    Applied("getStintPixelRange") =>
        ((args[1][3] = args[2][3] /\ args[1][2] = args[2][2]) =>
            F64Within(RangeEnd(ret[1]), RangeEnd(ret[2]), F64(1, 10)))

(* Two stints of the fifth period entering at 5:00 and at 0:30 and both    *)
(* leaving at 0:00 were laid out and end at the same coordinate.           *)
C11_Witness ==
    /\ Applied("getStintPixelRange")
    /\ args[1] = <<FormatClock(5, 0), FormatClock(0, 0), 5>>
    /\ args[2] = <<FormatClock(0, 30), FormatClock(0, 0), 5>>
    /\ ret[1].x # ret[2].x
    /\ RangeEnd(ret[1]) = RangeEnd(ret[2])

(* The second stint enters at the clock the first leaves at, in the same   *)
(* period, or the first leaves at "0:00" of period p and the second enters *)
(* at the full clock of period p + 1                                       *)
Consecutive(a, b) ==
    \/ a[3] = b[3] /\ b[1] = a[2]
    \/ /\ b[3] = a[3] + 1
       /\ a[2] = FormatClock(0, 0)
       /\ b[1] = FullClock(b[3])

(* C12 as stated: for consecutive stints the second stint's x is the first *)
(* stint's x + width.                                                      *)
C12_Abut ==
    Applied("getStintPixelRange") =>
        (Consecutive(args[1], args[2]) => ret[2].x = RangeEnd(ret[1]))

(* C12, amended: for consecutive stints the second stint's x is within     *)
(* 0.05 of the first stint's x + width.                                    *)
C12_AbutWithin ==
    Applied("getStintPixelRange") =>
        (Consecutive(args[1], args[2]) =>
            F64Within(ret[2].x, RangeEnd(ret[1]), F64(5, 100)))

(* Consecutive halves of the second quarter were laid out on a 2880 wide   *)
(* axis of a game with two overtimes: the second starts past the end of    *)
(* the first, by less than 0.05.                                           *)
C12_Witness ==
    /\ Applied("getStintPixelRange")
    /\ args[1] = <<FormatClock(12, 0), FormatClock(6, 0), 2>>
    /\ args[2] = <<FormatClock(6, 0), FormatClock(0, 0), 2>>
    /\ args[3] = F64OfInt(2880)
    /\ F64Lt(RangeEnd(ret[1]), ret[2].x)
    /\ F64Within(ret[2].x, RangeEnd(ret[1]), F64(5, 100))

----------------------------------------------------------------------------
(* Vocabulary of the segment properties *)

RECURSIVE WidthSum(_, _)
WidthSum(segments, k) ==
    IF k = 0 THEN F64OfInt(0)
    ELSE F64Add(WidthSum(segments, k - 1), segments[k].widthPx)

(* End coordinates of the on-court segments of a lane whose stint leaves  *)
(* at the clock outTime                                                    *)
EndsAt(segments, outTime) ==
    {WidthSum(segments, k) : k \in
        {j \in 1..Len(segments) :
            segments[j].type = "in" /\ segments[j].stint.outTime = outTime}}

OutTimes(segments) ==
    {segments[j].stint.outTime : j \in
        {k \in 1..Len(segments) : segments[k].type = "in"}}

(* Every in-time and out-time of the two rendered rows is a clock *)
ClocksWellFormed ==
    \A i \in 1..2 : \A k \in 1..Len(args[i]) :
        /\ ~IsNaN(clockToElapsed(args[i][k].inTime, QUARTER_SECONDS))
        /\ ~IsNaN(clockToElapsed(args[i][k].outTime, QUARTER_SECONDS))

(* C13: on-court segments of two players that end at the same clock of    *)
(* the same period end at the same coordinate, to within one pixel.       *)
C13_SameEndCoordinate ==
    (Applied("renderPeriod") /\ ClocksWellFormed) =>
        \A outTime \in OutTimes(ret.lanes[1]) \cap OutTimes(ret.lanes[2]) :
            \A a \in EndsAt(ret.lanes[1], outTime) :
                \A b \in EndsAt(ret.lanes[2], outTime) :
                    F64Within(a, b, F64OfInt(1))

(* C14: the segment widths of a lane sum to exactly the period block      *)
(* width, for every list of non-overlapping stints.                       *)
C14_FillsPeriodWidth ==
    (Applied("renderPeriod") /\ ClocksWellFormed) =>
        \A i \in 1..2 :
            WidthSum(ret.lanes[i], Len(ret.lanes[i])) = F64OfInt(QUARTER_PX)

(* C15: the block of an overtime period, header cell and player lanes     *)
(* alike, is 5/12 the width of a regulation block.                        *)
C15_OvertimeBlockWidth ==
    (Applied("renderPeriod") /\ ClocksWellFormed /\ args[3] > 4) =>
        /\ ret.header = F64(5 * QUARTER_PX, 12)
        /\ \A i \in 1..2 :
            WidthSum(ret.lanes[i], Len(ret.lanes[i])) = ret.header

----------------------------------------------------------------------------
(* A component of a clock string is numeric when it is a non-empty run of *)
(* decimal digits; a missing component is not.                            *)
IsNumericComponent(str) ==
    /\ str # <<>>
    /\ \A i \in 1..Len(str) : str[i] \in Digits

(* C16: for a clock whose minute or second component is non-numeric,      *)
(* clockToSeconds returns NaN for every period.                           *)
C16_NonNumericIsNaN ==
    Applied("clockToSeconds") =>
        LET parts == split(args[2], ":")
        IN  (~IsNumericComponent(At(parts, 1)) \/ ~IsNumericComponent(At(parts, 2)))
                => IsNaN(ret)

----------------------------------------------------------------------------
(* Vocabulary of the game properties *)

(* The highest period of the game: the highest period of any stint of the *)
(* data, and at least 4                                                    *)
HighestPeriod(data) ==
    LET ps == {4} \cup UNION {{data.players[i].stints[j].period :
                                  j \in 1..Len(data.players[i].stints)} :
                              i \in 1..Len(data.players)}
    IN  CHOOSE p \in ps : \A q \in ps : q <= p

(* The game minute of minute m of a period *)
GameMinute(period, m) ==
    IF period <= 4 THEN 12 * (period - 1) + m ELSE 48 + 5 * (period - 5) + m

RowsRendered == fn = "PlayerRow" /\ pc = "done"

(* C17: the team's lineup map has exactly one entry per game minute       *)
(* 0 .. 48 + 5 * (P - 4) - 1 for highest period P and no other; a team    *)
(* with no players or no stints has the empty set in every entry.         *)
C17_OneEntryPerMinute ==
    RowsRendered =>
        LET P == HighestPeriod(args.data)
        IN  /\ StoredMinutes = 0..(48 + 5 * (P - 4) - 1)
            /\ (\A i \in 1..Len(teamPlayers) : teamPlayers[i].stints = <<>>)
                   => \A m \in StoredMinutes : Snapshot(m) = {}

(* The home team has no player, the away team played a second overtime:   *)
(* the home map has the 58 minutes of the game, all empty.                *)
C17_Witness ==
    /\ RowsRendered
    /\ teamPlayers = <<>>
    /\ args.tricode = HomeTricode
    /\ HighestPeriod(args.data) = 6
    /\ Len(lineups) = 58
    /\ \A m \in StoredMinutes : Snapshot(m) = {}

(* Is minute m of the period flagged in a row's carriedMinutes? *)
Flagged(row, period, m) ==
    \E k \in 1..Len(row) : row[k].period = period /\ m \in Elements(row[k].mins)

(* The row rendered for the player *)
RowOf(player) == CHOOSE k \in 1..Len(ret) : ret[k].player = player

(* C18: a player row flags minute m of a period as carry-over exactly     *)
(* when the player is in the snapshot of the game minute g and no stint   *)
(* of the player covers g + 0.5.                                           *)
C18_CarryOverFlags ==
    RowsRendered =>
        \A i \in 1..Len(teamPlayers) :
            LET player == teamPlayers[i]
                row == ret[RowOf(player)].carriedMinutes
                intervals == StintIntervals(player.stints)
            IN  \A period \in 1..HighestPeriod(args.data) :
                    \A m \in 0..(PeriodLength(period) \div 60 - 1) :
                        LET g == GameMinute(period, m)
                        IN  Flagged(row, period, m) <=>
                                /\ player.playerId \in Snapshot(g)
                                /\ ~\E j \in 1..Len(intervals) :
                                        Covers(intervals[j], g)

(* A player with the whole first quarter only, in a game with a second    *)
(* overtime, whose row comes first: no minute of the first quarter is     *)
(* flagged, the last minute of the second overtime is.                    *)
C18_Witness ==
    /\ RowsRendered
    /\ HighestPeriod(args.data) = 6
    /\ Len(ret) = 2
    /\ ret[1].player = teamPlayers[2]
    /\ ret[1].player.stints =
            <<GameStint(1, FormatClock(12, 0), FormatClock(0, 0), F64OfInt(12))>>
    /\ ~Flagged(ret[1].carriedMinutes, 1, 0)
    /\ Flagged(ret[1].carriedMinutes, 6, 4)
    /\ ret[1].player.playerId \in Snapshot(57)

----------------------------------------------------------------------------
(* Vocabulary of the attribution properties *)

(* Is the event among the events of stint i of the result? *)
AttributedTo(event, i) ==
    \E k \in 1..Len(ret[i].events) : ret[i].events[k] = event

(* Stints i and j of the result share a boundary: i ends where j begins *)
SharedBoundary(i, j) ==
    /\ i # j
    /\ elapsed(ret[i].period, ret[i].outTime) = elapsed(ret[j].period, ret[j].inTime)

AtBoundary(event, i) ==
    elapsed(event.period, event.clock) = elapsed(ret[i].period, ret[i].outTime)

PlayerEvents ==
    {args.pbp[k] : k \in {n \in 1..Len(args.pbp) : args.pbp[n].player = args.player_id}}

(* C19: every event is attributed to at most one stint of the player, and *)
(* an event at the boundary shared by an ending and a beginning stint is  *)
(* attributed to the ending stint and not to the beginning one.           *)
C19_BoundaryToEndingStint ==
    Applied("build_stints") =>
        \A event \in PlayerEvents :
            /\ Cardinality({i \in 1..Len(ret) : AttributedTo(event, i)}) <= 1
            /\ \A i \in 1..Len(ret) : \A j \in 1..Len(ret) :
                    (SharedBoundary(i, j) /\ AtBoundary(event, i)) =>
                        (AttributedTo(event, i) /\ ~AttributedTo(event, j))

Scenario ==
    /\ args.rotation = <<Stint(1, FormatClock(12, 0), FormatClock(1, 54))>>
    /\ args.pbp = <<Event("p1", 1, FormatClock(10, 30), "make2"),
                    Event("p1", 1, FormatClock(8, 15), "dreb"),
                    Event("p1", 1, FormatClock(1, 55), "ftm")>>

(* C20 as stated: the scenario yields one stint with fgm = 1, fga = 1,    *)
(* pts = 2, reb = 1 and minutes 10.1, the 1:55 free throw not attributed. *)
C20_ScenarioAsStated ==
    (Applied("build_stints") /\ Scenario) =>
        /\ Len(ret) = 1
        /\ ret[1].stats.fgm = 1
        /\ ret[1].stats.fga = 1
        /\ ret[1].stats.pts = 2
        /\ ret[1].stats.reb = 1
        /\ ret[1].minutes = F64(101, 10)
        /\ ~AttributedTo(Event("p1", 1, FormatClock(1, 55), "ftm"), 1)

----------------------------------------------------------------------------
(* useJsonData and GameflowPage *)

Hook == fn = "useJsonData"

HasPlayers(data) ==
    /\ data # Null
    /\ "players" \in DOMAIN data
    /\ Len(data.players) >= 1

(* The errors the hook can hold for a url *)
ErrorsOf(url) ==
    {HttpError(status, url) : status \in HttpStatuses}
        \cup {onRejected(IdleState, err).error : err \in RejectionReasons(url)}
        \cup {SyntaxError(url)}

(* The hook holds the outcome of a fetch of url *)
HoldsResultOf(url) ==
    /\ ~ret.loading
    /\ \/ ret.error = Null /\ ret.data \in JsonBodies(url)
       \/ ret.data = Null /\ ret.error \in ErrorsOf(url)

(* C21: whenever the current url is null, whatever url changes came       *)
(* before, the hook returns data null, loading false, error null.         *)
C21_NullUrlIsIdle ==
    (Hook /\ pc \in {"call", "rendered", "mounted"} /\ args[1] = NullUrl)
        => ret = IdleState

(* C22, outcome: the step in which the fetch of the current url (the one  *)
(* chain that is not aborted) settles                                     *)
(* leaves loading false and one outcome: the parsed JSON with error null, *)
(* or an error with data null, the error of a response that is not ok     *)
(* carrying "HTTP <status>".                                              *)
C22_Outcome ==
    [][\A i \in {k \in 1..Len(fetches) :
                    /\ pc = "mounted"
                    /\ ~fetches[k].aborted
                    /\ fetches[k].url = args[1]} :
        /\ \A json \in JsonBodies(fetches[i].url) :
            JsonParsed(i, json) =>
                (~ret'.loading /\ ret'.data = json /\ ret'.error = Null)
        /\ \A status \in HttpStatuses :
            ResponseNotOk(i, status) =>
                (/\ ~ret'.loading
                 /\ ret'.data = Null
                 /\ ret'.error # Null
                 /\ ret'.error.message[1] = "HTTP "
                 /\ ret'.error.message[2] = status)
        /\ \A err \in RejectionReasons(fetches[i].url) :
            FetchRejected(i, err) =>
                (~ret'.loading /\ ret'.data = Null /\ ret'.error # Null)]_vars

(* C22, progress: while the url stays the same, a loading hook reaches    *)
(* loading = false.                                                       *)
C22_Settles ==
    \A url \in Urls :
        (Hook /\ pc = "mounted" /\ args = <<url>> /\ ret.loading)
            ~> (~ret.loading \/ args # <<url>> \/ pc = "unmounted")

(* C22: for a url that is not null and stays unchanged, the hook reaches  *)
(* loading = false with exactly one outcome, and a success leaves no      *)
(* error of an earlier url behind.                                        *)
C22_SettlesWithOneOutcome == C22_Outcome /\ C22_Settles

(* C23: GameflowPage renders the timeline exactly when loading is false,  *)
(* there is no error and the data has at least one player; once loading   *)
(* is over it renders the fallback for an error, for no data and for an   *)
(* empty players array, so the timeline never receives empty data.        *)
C23_TimelineIff ==
    Hook =>
        LET page == GameflowPage(ret) IN
        /\ page = "timeline" <=>
               (~ret.loading /\ ret.error = Null /\ HasPlayers(ret.data))
        /\ (~ret.loading /\ ~(ret.error = Null /\ HasPlayers(ret.data)))
               => page = "fallback"

(* The load succeeded with an empty players array and the page shows the  *)
(* fallback.                                                              *)
C23_Witness ==
    /\ Hook
    /\ ~ret.loading
    /\ ret.error = Null
    /\ ret.data # Null
    /\ "players" \in DOMAIN ret.data
    /\ Len(ret.data.players) = 0
    /\ GameflowPage(ret) = "fallback"

(* C28: after the url changes while a fetch is in flight, that fetch is   *)
(* aborted (once the effect has run, only the latest fetch of the current *)
(* url is not), the step in which an aborted fetch settles, with success  *)
(* or with failure, changes none of data, error, loading, and once        *)
(* nothing is in flight the hook holds the result of the current url.     *)
C28_AbortedFetchIsIgnored ==
    /\ []((Hook /\ pc = "mounted") => \A i \in 1..Len(fetches) :
              ~fetches[i].aborted => (i = Len(fetches) /\ fetches[i].url = args[1]))
    /\ [][\A i \in {k \in 1..Len(fetches) :
                        /\ Hook
                        /\ pc = "mounted"
                        /\ args[1] # NullUrl
                        /\ fetches[k].aborted} :
              ((\E json \in JsonBodies(fetches[i].url) : JsonParsed(i, json))
                   \/ JsonRejected(i)
                   \/ AbortedSettles(i))
                  => ret' = ret]_vars
    /\ []((Hook /\ pc = "mounted" /\ args[1] # NullUrl /\ fetches = <<>>)
              => HoldsResultOf(args[1]))

----------------------------------------------------------------------------
(* Vocabulary of the carry-over properties.  The stint lineup of a minute *)
(* is the set onCourtAt returns for its midpoint; the carried set is the  *)
(* set stored for the minute before.                                      *)

StintLineupAt(m) == onCourtAt(stintRanges, midpoint(m))

CarriedInto(m) == lineups[m]

Min(a, b) == IF a < b THEN a ELSE b

FirstN(seq, n) == SubSeq(seq, 1, Min(n, Len(seq)))

(* Carried players absent from the stint lineup, in the carried set's     *)
(* insertion order                                                        *)
GoneAt(m) == SelectSeq(CarriedInto(m), LAMBDA pid : ~SetHas(StintLineupAt(m), pid))

(* Players of the stint lineup that are not carried *)
ArrivalsAt(m) == SelectSeq(StintLineupAt(m), LAMBDA pid : ~SetHas(CarriedInto(m), pid))

(* The merged set of a minute: the stint lineup and the carried players   *)
(* left after the substitutions                                           *)
MergedAt(m) ==
    Elements(StintLineupAt(m))
        \cup (Elements(CarriedInto(m))
                \ Elements(FirstN(GoneAt(m), Len(ArrivalsAt(m)))))

(* The period whose stint ranges contain minute m *)
PeriodContaining(m) == IF m < 48 THEN (m \div 12) + 1 ELSE 5 + ((m - 48) \div 5)

(* C24: at every minute with at most 5 players covering the midpoint the  *)
(* snapshot has at most 5 players, whatever the carried set; at a         *)
(* non-boundary minute whose merged set exceeds 5 the snapshot has        *)
(* exactly 5.                                                             *)
C24_CappedAtFive ==
    Returned =>
        \A m \in StoredMinutes :
            /\ Len(StintLineupAt(m)) <= 5 => Cardinality(Snapshot(m)) <= 5
            /\ (m >= 1 /\ m \notin PeriodFirstMinutes /\ Cardinality(MergedAt(m)) > 5)
                   => Cardinality(Snapshot(m)) = 5

(* C25: the step for a minute applies the period-start rule exactly when  *)
(* the minute is the first of a period (0, 12, 24, 36, 48, 53, 58, ...),  *)
(* the mid-period rule otherwise, and the period derived for the minute   *)
(* is the one whose stint ranges contain it.                              *)
C25_PeriodStartAtFirstMinute ==
    [][/\ PeriodStart => minute \in PeriodFirstMinutes
       /\ MidPeriod => minute \notin PeriodFirstMinutes
       /\ (PeriodStart \/ MidPeriod) => periodOfMinute(minute) = PeriodContaining(minute)]_vars

(* C26: at the first minute m of a period after period 1, a stint lineup  *)
(* of fewer than 5 is completed with carried players in the carried set's *)
(* order until 5 are reached or carried is exhausted; a stint lineup of 5 *)
(* or more is the snapshot.                                               *)
C26_PeriodStartMerge ==
    Returned =>
        \A m \in StoredMinutes \cap PeriodFirstMinutes :
            m >= 12 =>
                LET stintLineup == StintLineupAt(m)
                IN  IF Len(stintLineup) < 5
                    THEN /\ lineups[m + 1] =
                                stintLineup \o FirstN(GoneAt(m), 5 - Len(stintLineup))
                         /\ Cardinality(Snapshot(m)) =
                                Min(5, Cardinality(Elements(stintLineup)
                                                   \cup Elements(CarriedInto(m))))
                    ELSE lineups[m + 1] = stintLineup

(* C27: at a non-boundary minute with n arrivals and g carried players    *)
(* absent from the stint lineup, the first min(n, g) of those g in the    *)
(* carried set's insertion order leave the snapshot and, where the merged *)
(* set needs no trimming, the others stay; with no arrival none leaves.   *)
C27_OneOutPerArrival ==
    Returned =>
        \A m \in StoredMinutes \ PeriodFirstMinutes :
            LET gone == GoneAt(m)
                k == Min(Len(ArrivalsAt(m)), Len(gone))
            IN  /\ \A i \in 1..k : gone[i] \notin Snapshot(m)
                /\ Cardinality(MergedAt(m)) <= 5 =>
                       \A i \in (k + 1)..Len(gone) : gone[i] \in Snapshot(m)

(* C29: for every minute m >= 1 the snapshot for m has at least           *)
(* min(5, size of the snapshot for m - 1) players.                        *)
C29_NeverShrinksBelowFive ==
    Returned =>
        \A m \in StoredMinutes :
            m >= 1 =>
                Cardinality(Snapshot(m)) >= Min(5, Cardinality(Snapshot(m - 1)))

(* A period starts with fewer than 5 players in its stint data after a    *)
(* minute with 5 and the snapshot still has 5.                            *)
C29_Witness ==
    /\ Returned
    /\ \E m \in StoredMinutes :
        /\ m >= 12
        /\ minuteInPeriod(m) = 0
        /\ Cardinality(Snapshot(m - 1)) = 5
        /\ Len(StintLineupAt(m)) < 5
        /\ Cardinality(Snapshot(m)) = 5

(* 60 * startMin for a stint of period p entered at the clock, as the     *)
(* double product                                                         *)
SixtyTimesGameMinute(p, clock) ==
    F64Mul(F64OfInt(60), stintRange("p1", Stint(p, clock, clock))[1])

(* C30 as stated: on every well-formed clock "M:SS" and period p,         *)
(* clockToSeconds is 60 times the game-minute value buildLineupsByMinute  *)
(* computes for a stint boundary at that clock, and is the startSeconds   *)
(* of p in getQuarterBoundaries plus                                      *)
(* clockToElapsed(clock, periodDuration(p)).                              *)
C30_ClockImplementationsAgree ==
    (Applied("clockToSeconds") /\ args[2] \in WellFormedClocks) =>
        LET p == args[1]
            clock == args[2]
            periodDuration == IF p > 4 THEN OT_SECONDS ELSE QUARTER_SECONDS
        IN  /\ F64OfInt(ret) = SixtyTimesGameMinute(p, clock)
            /\ ret = getQuarterBoundaries(p)[p].startSeconds
                       + clockToElapsed(clock, periodDuration)

(* C30 amended: on every well-formed clock "M:SS" and period p, 60 times  *)
(* the game-minute value buildLineupsByMinute computes for a stint        *)
(* boundary at that clock is within one billionth of a second of          *)
(* clockToSeconds, and clockToSeconds is exactly the startSeconds of p in *)
(* getQuarterBoundaries plus clockToElapsed(clock, periodDuration(p)).    *)
C30_ClockImplementationsAgreeWithin ==
    (Applied("clockToSeconds") /\ args[2] \in WellFormedClocks) =>
        LET p == args[1]
            clock == args[2]
            periodDuration == IF p > 4 THEN OT_SECONDS ELSE QUARTER_SECONDS
        IN  /\ F64Within(SixtyTimesGameMinute(p, clock), F64OfInt(ret),
                         F64(1, 1000000000))
            /\ ret = getQuarterBoundaries(p)[p].startSeconds
                       + clockToElapsed(clock, periodDuration)

(* The clock 3:59 of the first quarter was converted to 481 seconds, and  *)
(* 60 times its game minute, the double nearest 481 / 60, is a double     *)
(* above 481.                                                             *)
C30_Witness ==
    /\ Applied("clockToSeconds")
    /\ args = <<1, FormatClock(3, 59)>>
    /\ ret = 481
    /\ clockToElapsed(args[2], QUARTER_SECONDS) = 481
    /\ F64Lt(F64OfInt(481), SixtyTimesGameMinute(1, args[2]))

====
